---- MODULE Spec2Model ----
(***************************************************************************)
(* A model of the integer primitive library (mpmath/libmp/libintmath.py)   *)
(* and of the precision handling of the special functions                  *)
(* (mpmath/functions/functions.py).                                        *)
(*                                                                         *)
(* Every routine has its own frame of variables (prefix sq_, gs_, ...) and *)
(* its own specification; a frame that a specification does not use stays  *)
(* idle.  Python integers are unbounded, TLC's are 32 bits wide: the size  *)
(* thresholds of the square root (2^50 ... 2^800) are therefore scaled     *)
(* down, each to a power of two whose exponent is a bound of the model,    *)
(* kept in the order the source has them.                                  *)
(***************************************************************************)
EXTENDS Integers, Sequences, FiniteSets, TLC

VARIABLES
    sq_pc,      \* sqrtrem_python: position ("idle", "call", "newton", "down", "up", "done")
    sq_x,       \* the argument x
    sq_r,       \* isqrt_small_python: the iterate r
    sq_y,       \* sqrtrem_python: y
    sq_rem,     \* sqrtrem_python: rem
    sq_path,    \* which branch of sqrtrem_python ran: "small" or "fast"
    sq_est,     \* the value isqrt_fast_python / the float estimate returned
    lw_pc,      \* lambertw: position ("idle", "call", "series", "sqrt", "terms",
                \*   "halley", "after", "returned", "raised")
    lw_ctxprec, \* ctx.prec, the precision state of the context
    lw_entry,   \* ctx.prec when lambertw was called
    lw_prec,    \* lambertw's local prec (the saved precision)
    lw_z,       \* the argument z: "special", "near" (the branch point -1/e) or "far"
    lw_imneg,   \* whether Im(z) < 0
    lw_k,       \* the branch k
    lw_canc,    \* _lambertw_series: cancellation
    lw_done,    \* the flag _lambertw_series returned
    lw_i,       \* the loop variable i of the Halley iteration
    lw_met,     \* whether a Halley step met the tolerance (the break was taken)
    lw_warned,  \* whether ctx.warn was called
    gs_pc,      \* giant_steps: position ("idle", "call", "loop", "returned")
    gs_start,   \* start
    gs_target,  \* target
    gs_n,       \* n
    gs_L,       \* the list L, in the order it is built
    gs_ret,     \* the list returned
    fn_pc,      \* a call of isprime, mangoldt or moebius: "idle", "call", "done"
    fn_op,      \* which of them is called
    fn_n,       \* the argument n
    fn_res,     \* the value returned
    fib_pc,     \* ifib: position ("idle", "call", "loop", "done")
    fib_arg,    \* the n ifib was called with
    fib_n,      \* the n of the doubling loop
    fib_a,      \* a
    fib_b,      \* b
    fib_p,      \* p
    fib_q,      \* q
    fib_res,    \* the value returned
    eu_pc,      \* eulernum: position ("idle", "call", "inner", "sum", "ret", "done")
    eu_m,       \* the argument m
    eu_n,       \* n
    eu_j,       \* the loop variable j of the inner loop
    eu_a,       \* the list a (a[i] of the source is eu_a[i + 1])
    eu_suma,    \* suma
    eu_res,     \* the value returned
    st_pc,      \* stirling1 / stirling2: position ("idle", "call", "raised", "returned")
    st_fn,      \* which of the two is called
    st_n,       \* n
    st_k,       \* k
    st_res,     \* the value returned ("none" while there is none)
    mg_pc,      \* mangoldt, step by step: "idle", "call", "search", "returned", "raised"
    mg_n,       \* n
    mg_k,       \* k of the root search
    mg_res,     \* the value returned (NoValue while there is none)
    rg_defined, \* SpecialFunctions.defined_functions: name -> <<f, wrap>>
    rg_attrs,   \* the attributes of the context class cls that were set by
                \*   _wrap_specfun, or by defun_static when cls is
                \*   SpecialFunctions itself
    rg_derived, \* whether the context class derives from SpecialFunctions
                \*   (FALSE: it is SpecialFunctions itself)
    rg_base,    \* the attributes defun_static has set on SpecialFunctions when
                \*   the context class derives from it
    rg_statics, \* how many calls of defun_static were made
    rg_calls,   \* the arguments (f, wrap) of the last _wrap_specfun call per name
    rg_log,     \* the registrations made so far, in order
    rg_fresh,   \* whether a context was constructed after the last call of
                \*   defun, defun_wrapped or defun_static
    rg_ctxs,    \* the contexts constructed so far, in order: for each the
                \*   names in the instance's own __dict__
    be_pc,      \* backend.py, the module body: "idle", "start", "env", "gmpy2",
                \*   "gmpy2_backend", "gmpy2_mpq", "gmp", "gmp_backend", "wrap",
                \*   "consts", "types", "ready"
    be_env,     \* the names in os.environ
    be_avail,   \* the native libraries that can be imported
    be_gmpy,    \* the module-level name gmpy: "None", "gmpy2" or "gmp"
    be_backend, \* BACKEND
    be_mpz,     \* MPZ: "int" or "wrapper" (the function of lines 40-62)
    be_mpq,     \* MPQ
    be_stats,   \* stats: bucket -> count
    be_consts,  \* how many of MPZ_ZERO .. MPZ_FIVE are defined
    be_calls,   \* the calls of MPZ made after the module body
    rt_pc,      \* root / unitroots: "idle", "call", "try", "sub", "finally",
                \*   "returned", "raised"
    rt_fn,      \* "root" or "unitroots"
    rt_case,    \* root: "k0" (k = 0), "realroot" (the exact real root), "unity";
                \*   unitroots: "primitive" or "all"
    rt_n,       \* n
    rt_ctxprec, \* ctx.prec
    rt_entry,   \* ctx.prec when the function was called
    rt_prec,    \* the local prec (the saved precision)
    rt_i,       \* how many parts of the subcomputation are done
    rt_err,     \* whether the subcomputation raised
    f2_pc,      \* ifac2: "idle", "ready" (no call under way), "loop", "returned"
    f2_memo,    \* memo_pair: f2_memo[0] the even table, f2_memo[1] the odd one
    f2_n,       \* n
    f2_k,       \* k
    f2_p,       \* p
    f2_res,     \* the value returned
    cy_pc,      \* cyclotomic: "idle", "call", "loop", "finish", "returned", "raised"
    cy_n,       \* n
    cy_m,       \* z is a primitive cy_m-th root of unity, or no root of unity
                \*   at all when cy_m = 0
    cy_d,       \* the loop variable d
    cy_p,       \* p, as the list of its factors <<d, w>> (1 - z^d)^w
    cy_a,       \* a_prod
    cy_b,       \* b_prod
    cy_zeros,   \* num_zeros
    cy_poles,   \* num_poles
    cy_res,     \* the value returned
    lp_pc,      \* log1p: "idle", "call", "added", "series", "returned"
    lp_zero,    \* whether x is zero
    lp_prec,    \* ctx.prec
    lp_cmag,    \* cmag = ctx.mag(c)
    lp_agtb,    \* whether ctx.mag(a) > ctx.mag(b)
    lp_wp,      \* wp
    lp_addprec  \* the prec given to ctx.fadd (0 while it was not called)

sqVars == <<sq_pc, sq_x, sq_r, sq_y, sq_rem, sq_path, sq_est>>
lwVars == <<lw_pc, lw_ctxprec, lw_entry, lw_prec, lw_z, lw_imneg, lw_k,
            lw_canc, lw_done, lw_i, lw_met, lw_warned>>
gsVars == <<gs_pc, gs_start, gs_target, gs_n, gs_L, gs_ret>>
fnVars == <<fn_pc, fn_op, fn_n, fn_res>>
fibVars == <<fib_pc, fib_arg, fib_n, fib_a, fib_b, fib_p, fib_q, fib_res>>
euVars == <<eu_pc, eu_m, eu_n, eu_j, eu_a, eu_suma, eu_res>>
stVars == <<st_pc, st_fn, st_n, st_k, st_res>>
mgVars == <<mg_pc, mg_n, mg_k, mg_res>>
rgVars == <<rg_defined, rg_attrs, rg_derived, rg_base, rg_statics, rg_calls,
           rg_log, rg_fresh, rg_ctxs>>
beVars == <<be_pc, be_env, be_avail, be_gmpy, be_backend, be_mpz, be_mpq,
            be_stats, be_consts, be_calls>>
rtVars == <<rt_pc, rt_fn, rt_case, rt_n, rt_ctxprec, rt_entry, rt_prec, rt_i,
            rt_err>>
f2Vars == <<f2_pc, f2_memo, f2_n, f2_k, f2_p, f2_res>>
cyVars == <<cy_pc, cy_n, cy_m, cy_d, cy_p, cy_a, cy_b, cy_zeros, cy_poles,
            cy_res>>
lpVars == <<lp_pc, lp_zero, lp_prec, lp_cmag, lp_agtb, lp_wp, lp_addprec>>









vars == <<sqVars, lwVars, gsVars, fnVars, fibVars, euVars, stVars,
            mgVars, rgVars, beVars, rtVars, f2Vars, cyVars,
            lpVars>>

\* the frames an action of one routine leaves alone
sqOthers == <<lwVars, gsVars, fnVars, fibVars, euVars, stVars, mgVars,
            rgVars, beVars, rtVars, f2Vars, cyVars, lpVars>>
lwOthers == <<sqVars, gsVars, fnVars, fibVars, euVars, stVars, mgVars,
            rgVars, beVars, rtVars, f2Vars, cyVars, lpVars>>
gsOthers == <<sqVars, lwVars, fnVars, fibVars, euVars, stVars, mgVars,
            rgVars, beVars, rtVars, f2Vars, cyVars, lpVars>>
fnOthers == <<sqVars, lwVars, gsVars, fibVars, euVars, stVars, mgVars,
            rgVars, beVars, rtVars, f2Vars, cyVars, lpVars>>
fibOthers == <<sqVars, lwVars, gsVars, fnVars, euVars, stVars, mgVars,
            rgVars, beVars, rtVars, f2Vars, cyVars, lpVars>>
euOthers == <<sqVars, lwVars, gsVars, fnVars, fibVars, stVars, mgVars,
            rgVars, beVars, rtVars, f2Vars, cyVars, lpVars>>
stOthers == <<sqVars, lwVars, gsVars, fnVars, fibVars, euVars, mgVars,
            rgVars, beVars, rtVars, f2Vars, cyVars, lpVars>>
mgOthers == <<sqVars, lwVars, gsVars, fnVars, fibVars, euVars, stVars,
            rgVars, beVars, rtVars, f2Vars, cyVars, lpVars>>
rgOthers == <<sqVars, lwVars, gsVars, fnVars, fibVars, euVars, stVars,
            mgVars, beVars, rtVars, f2Vars, cyVars, lpVars>>
beOthers == <<sqVars, lwVars, gsVars, fnVars, fibVars, euVars, stVars,
            mgVars, rgVars, rtVars, f2Vars, cyVars, lpVars>>
rtOthers == <<sqVars, lwVars, gsVars, fnVars, fibVars, euVars, stVars,
            mgVars, rgVars, beVars, f2Vars, cyVars, lpVars>>
f2Others == <<sqVars, lwVars, gsVars, fnVars, fibVars, euVars, stVars,
            mgVars, rgVars, beVars, rtVars, cyVars, lpVars>>
cyOthers == <<sqVars, lwVars, gsVars, fnVars, fibVars, euVars, stVars,
            mgVars, rgVars, beVars, rtVars, f2Vars, lpVars>>
lpOthers == <<sqVars, lwVars, gsVars, fnVars, fibVars, euVars, stVars,
            mgVars, rgVars, beVars, rtVars, f2Vars, cyVars>>

\* the result of a call that has not returned one
NoValue == <<"none", 0>>

\* a routine that is not running: its frame is idle
SqIdle ==
    /\ sq_pc = "idle" /\ sq_x = 0 /\ sq_r = 0 /\ sq_y = 0 /\ sq_rem = 0
    /\ sq_path = "none" /\ sq_est = 0

LwIdle ==
    /\ lw_pc = "idle" /\ lw_ctxprec = 0 /\ lw_entry = 0 /\ lw_prec = 0
    /\ lw_z = "none" /\ lw_imneg = FALSE /\ lw_k = 0 /\ lw_canc = 0
    /\ lw_done = FALSE /\ lw_i = 0 /\ lw_met = FALSE /\ lw_warned = FALSE
GsIdle ==
    /\ gs_pc = "idle" /\ gs_start = 0 /\ gs_target = 0 /\ gs_n = 0
    /\ gs_L = <<>> /\ gs_ret = <<>>
FnIdle ==
    /\ fn_pc = "idle" /\ fn_op = "none" /\ fn_n = 0 /\ fn_res = 0
FibIdle ==
    /\ fib_pc = "idle" /\ fib_arg = 0 /\ fib_n = 0 /\ fib_a = 0 /\ fib_b = 0
    /\ fib_p = 0 /\ fib_q = 0 /\ fib_res = 0
EuIdle ==
    /\ eu_pc = "idle" /\ eu_m = 0 /\ eu_n = 0 /\ eu_j = 0 /\ eu_a = <<>>
    /\ eu_suma = 0 /\ eu_res = 0
StIdle ==
    /\ st_pc = "idle" /\ st_fn = "none" /\ st_n = 0 /\ st_k = 0
    /\ st_res = "none"
MgIdle ==
    /\ mg_pc = "idle" /\ mg_n = 0 /\ mg_k = 0 /\ mg_res = NoValue
RgIdle ==
    /\ rg_defined = <<>> /\ rg_attrs = <<>> /\ rg_calls = <<>>
    /\ rg_log = <<>> /\ rg_fresh = FALSE /\ rg_ctxs = <<>>
    /\ rg_derived = FALSE /\ rg_base = <<>> /\ rg_statics = 0
BeIdle ==
    /\ be_pc = "idle" /\ be_env = {} /\ be_avail = {} /\ be_gmpy = "None"
    /\ be_backend = "none" /\ be_mpz = "none" /\ be_mpq = "none"
    /\ be_stats = <<>> /\ be_consts = 0 /\ be_calls = 0
RtIdle ==
    /\ rt_pc = "idle" /\ rt_fn = "none" /\ rt_case = "none" /\ rt_n = 0
    /\ rt_ctxprec = 0 /\ rt_entry = 0 /\ rt_prec = 0 /\ rt_i = 0
    /\ rt_err = FALSE
F2Idle ==
    /\ f2_pc = "idle" /\ f2_memo = <<>> /\ f2_n = 0 /\ f2_k = 0 /\ f2_p = 0
    /\ f2_res = 0
CyIdle ==
    /\ cy_pc = "idle" /\ cy_n = 0 /\ cy_m = 0 /\ cy_d = 0 /\ cy_p = <<>>
    /\ cy_a = 0 /\ cy_b = 0 /\ cy_zeros = 0 /\ cy_poles = 0
    /\ cy_res = NoValue
LpIdle ==
    /\ lp_pc = "idle" /\ lp_zero = FALSE /\ lp_prec = 0 /\ lp_cmag = 0
    /\ lp_agtb = FALSE /\ lp_wp = 0 /\ lp_addprec = 0

(***************************************************************************)
(* Bounds of the model.                                                    *)
(***************************************************************************)
\* x ranges over 0..MaxX
MaxX == 700
\* scaled exponents standing for 50, 100, 200, 400, 600 and 800
Bits50 == 4
Bits100 == 5
Bits200 == 6
Bits400 == 7
Bits600 == 8
Bits800 == 9
\* largest absolute error, in units, of a float square root of an integer
\* too large for a double to hold exactly
FloatErr == 2

T50 == 2 ^ Bits50
T100 == 2 ^ Bits100
T200 == 2 ^ Bits200
T400 == 2 ^ Bits400
T600 == 2 ^ Bits600
T800 == 2 ^ Bits800

(***************************************************************************)
(* Square roots.                                                           *)
(***************************************************************************)
\* floor(sqrt(x)), the mathematical reference
FloorSqrt(x) == CHOOSE s \in 0..x : s * s <= x /\ (s + 1) * (s + 1) > x

\* int(x**0.5): exact while x < 2^50 (a double holds x and the rounded root
\* floors to the true one); beyond that the double is off by a few units
IntFloatSqrt(x) ==
    IF x < T50 THEN {FloorSqrt(x)}
    ELSE {e \in (FloorSqrt(x) - FloatErr)..(FloorSqrt(x) + FloatErr) : e >= 1}

\* int(x**0.5 * 1.00000000000001) + 1: the factor exceeds the double's
\* relative error, so the estimate is above the true root
SmallEstimate(x) == (FloorSqrt(x) + 1)..(FloorSqrt(x) + 1 + FloatErr)

NewtonStepHigh(r, x) == (r + x \div r + 1) \div 2
\* (r + x//r) >> 1
NewtonStep(r, x) == (r + x \div r) \div 2

\* isqrt_fast_python: the set of values it may return for x
IsqrtFastN1(x) == IF x >= T100 THEN {NewtonStep(e, x) : e \in IntFloatSqrt(x)}
                  ELSE IntFloatSqrt(x)
IsqrtFastN2(x) == IF x >= T200 THEN {NewtonStep(e, x) : e \in IsqrtFastN1(x)}
                  ELSE IsqrtFastN1(x)
IsqrtFastN3(x) == IF x >= T400 THEN {NewtonStep(e, x) : e \in IsqrtFastN2(x)}
                  ELSE IsqrtFastN2(x)
\* the division-free Newton iteration with 10 guard bits: at most one unit
\* off the true root
IsqrtFastGuarded(x) == {e \in (FloorSqrt(x) - 1)..(FloorSqrt(x) + 1) : e >= 0}
isqrt_fast_python(x) == IF x < T800 THEN IsqrtFastN3(x) ELSE IsqrtFastGuarded(x)

DownRemShort(y, rem) == rem + 2 * y
\* rem += (1+2*y), y already decremented
DownRem(y, rem) == rem + (1 + 2 * y)
\* rem -= (1+2*y), y already incremented
UpRem(y, rem) == rem - (1 + 2 * y)

SqInit ==
    /\ sq_pc = "call" /\ sq_x \in 0..MaxX
    /\ sq_r = 0 /\ sq_y = 0 /\ sq_rem = 0 /\ sq_path = "none" /\ sq_est = 0

\* sqrtrem_python line 239: return y, x - y*y
SqReturnSmall(y) ==
    /\ sq_y' = y /\ sq_rem' = sq_x - y * y /\ sq_pc' = "done"

\* sqrtrem_python, x < 2^600: isqrt_small_python up to the first iterate
IsqrtSmallEnter ==
    /\ sq_pc = "call" /\ sq_x < T600
    /\ sq_path' = "small"
    /\ IF sq_x = 0
         THEN SqReturnSmall(sq_x) /\ UNCHANGED <<sq_r, sq_est>>
       ELSE IF sq_x < T50
         THEN \E e \in IntFloatSqrt(sq_x) :
                SqReturnSmall(e) /\ sq_est' = e /\ UNCHANGED sq_r
       ELSE \E e \in SmallEstimate(sq_x) :
                /\ sq_r' = e /\ sq_est' = e /\ sq_pc' = "newton"
                /\ UNCHANGED <<sq_y, sq_rem>>
    /\ UNCHANGED sq_x
    /\ UNCHANGED sqOthers

\* isqrt_small_python: one pass of the while loop
IsqrtSmallIter ==
    /\ sq_pc = "newton"
    /\ LET y == NewtonStep(sq_r, sq_x) IN
         IF y >= sq_r
           THEN SqReturnSmall(sq_r) /\ UNCHANGED sq_r
           ELSE sq_r' = y /\ UNCHANGED <<sq_pc, sq_y, sq_rem>>
    /\ UNCHANGED <<sq_x, sq_path, sq_est>>
    /\ UNCHANGED sqOthers

\* sqrtrem_python, x >= 2^600: y = isqrt_fast(x) + 1; rem = x - y*y
SqrtremFastEnter ==
    /\ sq_pc = "call" /\ sq_x >= T600
    /\ \E e \in isqrt_fast_python(sq_x) :
         /\ sq_est' = e /\ sq_y' = e + 1
         /\ sq_rem' = sq_x - (e + 1) * (e + 1)
    /\ sq_path' = "fast" /\ sq_pc' = "down"
    /\ UNCHANGED <<sq_x, sq_r>>
    /\ UNCHANGED sqOthers

\* while rem < 0: y -= 1; rem += (1+2*y)   else: if rem: ...
SqrtremDown ==
    /\ sq_pc = "down"
    /\ IF sq_rem < 0
         THEN /\ sq_y' = sq_y - 1
              /\ sq_rem' = DownRem(sq_y - 1, sq_rem)
              /\ UNCHANGED sq_pc
         ELSE /\ sq_pc' = IF sq_rem # 0 THEN "up" ELSE "done"
              /\ UNCHANGED <<sq_y, sq_rem>>
    /\ UNCHANGED <<sq_x, sq_r, sq_path, sq_est>>
    /\ UNCHANGED sqOthers

\* while rem > 2*(1+y): y += 1; rem -= (1+2*y)
SqrtremUp ==
    /\ sq_pc = "up"
    /\ IF sq_rem > 2 * (1 + sq_y)
         THEN /\ sq_y' = sq_y + 1
              /\ sq_rem' = UpRem(sq_y + 1, sq_rem)
              /\ UNCHANGED sq_pc
         ELSE /\ sq_pc' = "done"
              /\ UNCHANGED <<sq_y, sq_rem>>
    /\ UNCHANGED <<sq_x, sq_r, sq_path, sq_est>>
    /\ UNCHANGED sqOthers

SqNext ==
    \/ IsqrtSmallEnter
    \/ IsqrtSmallIter
    \/ SqrtremFastEnter
    \/ SqrtremDown
    \/ SqrtremUp

InitSqrt == SqInit /\ LwIdle /\ GsIdle /\ FnIdle /\ FibIdle /\ EuIdle
    /\ StIdle /\ MgIdle /\ RgIdle /\ BeIdle /\ RtIdle /\ F2Idle /\ CyIdle
    /\ LpIdle

SpecSqrt == InitSqrt /\ [][SqNext]_vars

\* C1: whenever sqrtrem_python has returned (y, rem), on the small path and
\* on the fast path alike, y*y + rem = x and 0 <= rem <= 2*y.
SqrtremExact ==
    sq_pc = "done" =>
        /\ sq_y * sq_y + sq_rem = sq_x
        /\ 0 <= sq_rem /\ sq_rem <= 2 * sq_y

\* the fast path has returned from an estimate one unit off the root
SqrtremFastOffByOne ==
    /\ sq_pc = "done" /\ sq_path = "fast"
    /\ sq_est = FloorSqrt(sq_x) - 1 /\ sq_rem > 0

\* C2: isqrt_python(x) = sqrtrem_python(x)[0] satisfies
\* isqrt(x)^2 <= x < (isqrt(x)+1)^2; on the small path the iterate r never
\* drops below floor(sqrt(x)), every pass that continues strictly lowers it
\* (so the loop terminates), and the value returned is floor(sqrt(x)).
IsqrtFloor ==
    /\ [](/\ sq_pc = "done" =>
               /\ sq_y * sq_y <= sq_x
               /\ sq_x < (sq_y + 1) * (sq_y + 1)
          /\ sq_pc = "newton" => sq_r >= FloorSqrt(sq_x)
          /\ (sq_pc = "done" /\ sq_path = "small") => sq_y = FloorSqrt(sq_x))
    /\ [][(sq_pc = "newton" /\ sq_pc' = "newton") =>
              (sq_r' < sq_r /\ sq_r' >= FloorSqrt(sq_x))]_vars

\* the Newton loop has returned after starting two or more above the root
IsqrtNewtonReturned ==
    /\ sq_pc = "done" /\ sq_path = "small" /\ sq_x >= T50
    /\ sq_est >= FloorSqrt(sq_x) + 2 /\ sq_y = FloorSqrt(sq_x)

(***************************************************************************)
(* lambertw and the precision of the context.                              *)
(***************************************************************************)
\* the precisions a caller may have set
EntryPrecs == {53, 113}
\* branches k range over -MaxK..MaxK
MaxK == 2
\* cancellation = -ctx.mag(delta), |delta| < 0.05, ranges over MinCancel..MaxCancel
MinCancel == 2
MaxCancel == 5
\* for i in range(100)
HalleySteps == 100
\* if i == 100
WarnAt == 100

Abs(n) == IF n < 0 THEN -n ELSE n

RECURSIVE BitLength(_)
BitLength(n) == IF n = 0 THEN 0 ELSE 1 + BitLength(n \div 2)
\* ctx.mag of a nonzero integer: its bit length
MagInt(n) == BitLength(Abs(n))

\* k or 1
KOr1(k) == IF k # 0 THEN k ELSE 1

\* _lambertw_series lines 467-471: the branch-point series is used
NearBranchPoint ==
    /\ lw_z = "near"
    /\ \/ lw_k = 0
       \/ lw_k = -1 /\ ~lw_imneg
       \/ lw_k = 1 /\ lw_imneg

LwInit ==
    /\ lw_pc = "call"
    /\ lw_ctxprec \in EntryPrecs /\ lw_entry = lw_ctxprec
    /\ lw_z \in {"special", "near", "far"}
    /\ lw_imneg \in BOOLEAN
    /\ lw_k \in (-MaxK)..MaxK
    /\ lw_prec = 0 /\ lw_canc = 0 /\ lw_done = FALSE /\ lw_i = 0
    /\ lw_met = FALSE /\ lw_warned = FALSE

\* lines 518-519: if ctx.isspecial(z): return _lambertw_special(ctx, z, k)
LambertwSpecial ==
    /\ lw_pc = "call" /\ lw_z = "special"
    /\ lw_pc' = "returned"
    /\ UNCHANGED <<lw_ctxprec, lw_entry, lw_prec, lw_z, lw_imneg, lw_k,
                   lw_canc, lw_done, lw_i, lw_met, lw_warned>>
    /\ UNCHANGED lwOthers

\* lines 520-523: prec = ctx.prec; ctx.prec += 20 + ctx.mag(k or 1)
LambertwRaisePrec ==
    /\ lw_pc = "call" /\ lw_z # "special"
    /\ lw_prec' = lw_ctxprec
    /\ lw_ctxprec' = lw_ctxprec + 20 + MagInt(KOr1(lw_k))
    /\ lw_pc' = "series"
    /\ UNCHANGED <<lw_entry, lw_z, lw_imneg, lw_k, lw_canc, lw_done, lw_i,
                   lw_met, lw_warned>>
    /\ UNCHANGED lwOthers

\* lines 472-474: cancellation = -ctx.mag(delta); ctx.prec += cancellation
SeriesRaisePrec ==
    /\ lw_pc = "series" /\ NearBranchPoint
    /\ \E c \in MinCancel..MaxCancel :
         /\ lw_canc' = c
         /\ lw_ctxprec' = lw_ctxprec + c
    /\ lw_pc' = "sqrt"
    /\ UNCHANGED <<lw_entry, lw_prec, lw_z, lw_imneg, lw_k, lw_done, lw_i,
                   lw_met, lw_warned>>
    /\ UNCHANGED lwOthers

\* lines 476-477: p = ctx.sqrt(...); ctx.prec -= cancellation
SeriesLowerPrec ==
    /\ lw_pc = "sqrt"
    /\ lw_ctxprec' = lw_ctxprec - lw_canc
    /\ lw_pc' = "terms"
    /\ UNCHANGED <<lw_entry, lw_prec, lw_z, lw_imneg, lw_k, lw_canc, lw_done,
                   lw_i, lw_met, lw_warned>>
    /\ UNCHANGED lwOthers

\* lines 486-496: a term below the tolerance returns (s, True); otherwise
\* ctx.prec += cancellation//2 and (s, False) is returned
SeriesTerms ==
    /\ lw_pc = "terms"
    /\ \E small \in BOOLEAN :
         IF small
           THEN /\ lw_done' = TRUE /\ lw_pc' = "after"
                /\ UNCHANGED lw_ctxprec
           ELSE /\ lw_done' = FALSE /\ lw_pc' = "halley"
                /\ lw_ctxprec' = lw_ctxprec + lw_canc \div 2
    /\ UNCHANGED <<lw_entry, lw_prec, lw_z, lw_imneg, lw_k, lw_canc, lw_i,
                   lw_met, lw_warned>>
    /\ UNCHANGED lwOthers

\* lines 497-512: every other seed is returned with done = False
SeriesApprox ==
    /\ lw_pc = "series" /\ ~NearBranchPoint
    /\ lw_done' = FALSE /\ lw_pc' = "halley"
    /\ UNCHANGED <<lw_ctxprec, lw_entry, lw_prec, lw_z, lw_imneg, lw_k,
                   lw_canc, lw_i, lw_met, lw_warned>>
    /\ UNCHANGED lwOthers

\* line 528: the value of i after a pass that did not break; range(100)
\* ends with i = 99
HalleyExhausted(i) == i + 1 >= HalleySteps

\* lines 528-537: one pass of the Halley loop; the tolerance test of line
\* 533 either breaks or lets the loop go on
HalleyStep ==
    /\ lw_pc = "halley"
    /\ \E met \in BOOLEAN :
         IF met
           THEN lw_met' = TRUE /\ lw_pc' = "after" /\ UNCHANGED lw_i
           ELSE IF HalleyExhausted(lw_i)
             THEN lw_pc' = "after" /\ UNCHANGED <<lw_i, lw_met>>
             ELSE lw_i' = lw_i + 1 /\ UNCHANGED <<lw_pc, lw_met>>
    /\ UNCHANGED <<lw_ctxprec, lw_entry, lw_prec, lw_z, lw_imneg, lw_k,
                   lw_canc, lw_done, lw_warned>>
    /\ UNCHANGED lwOthers

\* an operation of the context raises inside _lambertw_series or the Halley
\* loop: lambertw has no handler, the error leaves it as it stands
LambertwError ==
    /\ lw_pc \in {"series", "sqrt", "terms", "halley"}
    /\ lw_pc' = "raised"
    /\ UNCHANGED <<lw_ctxprec, lw_entry, lw_prec, lw_z, lw_imneg, lw_k,
                   lw_canc, lw_done, lw_i, lw_met, lw_warned>>
    /\ UNCHANGED lwOthers

\* line 538: if i == 100
WarnTest(i) == i = WarnAt

\* lines 538-541: the warning test (inside `if not done`), ctx.prec = prec,
\* return +w
LambertwReturn ==
    /\ lw_pc = "after"
    /\ lw_warned' = (~lw_done /\ WarnTest(lw_i))
    /\ lw_ctxprec' = lw_prec
    /\ lw_pc' = "returned"
    /\ UNCHANGED <<lw_entry, lw_prec, lw_z, lw_imneg, lw_k, lw_canc, lw_done,
                   lw_i, lw_met>>
    /\ UNCHANGED lwOthers

LwNext ==
    \/ LambertwSpecial
    \/ LambertwRaisePrec
    \/ SeriesRaisePrec
    \/ SeriesLowerPrec
    \/ SeriesTerms
    \/ SeriesApprox
    \/ HalleyStep
    \/ LambertwError
    \/ LambertwReturn

InitLambertw == LwInit /\ SqIdle /\ GsIdle /\ FnIdle /\ FibIdle /\ EuIdle
    /\ StIdle /\ MgIdle /\ RgIdle /\ BeIdle /\ RtIdle /\ F2Idle /\ CyIdle
    /\ LpIdle

SpecLambertw == InitLambertw /\ [][LwNext]_vars

\* C3: on every exit of lambertw, by return or by an error, ctx.prec is
\* what it was when lambertw was called.
LambertwRestoresPrec ==
    lw_pc \in {"returned", "raised"} => lw_ctxprec = lw_entry

\* C4: the Halley loop runs at most 100 passes; when lambertw returns after
\* all of them failed the tolerance test the warning was emitted, and when
\* one met the tolerance it was not.
HalleyWarnsWhenExhausted ==
    lw_pc = "returned" =>
        /\ lw_i < HalleySteps
        /\ (~lw_done /\ ~lw_met /\ lw_z # "special") => lw_warned
        /\ lw_met => ~lw_warned

(***************************************************************************)
(* giant_steps.                                                            *)
(***************************************************************************)
\* start ranges over 1..MaxStart, target over 1..MaxTarget, n over
\* 2..MaxOrder; the two calls of the docstring are added
MaxStart == 12
MaxTarget == 40
MaxOrder == 4
\* the longest list L the model follows
MaxListLen == 8

DocStart == 50
DocTarget == 1000

Last(s) == s[Len(s)]
Reverse(s) == [i \in 1..Len(s) |-> s[Len(s) + 1 - i]]

\* L[-1]//n + 2
GiantNext(last, n) == last \div n + 2
\* the test of the while loop: L[-1] > start*n
GiantMore(last, start, n) == last > start * n
GiantResultUnreversed(L) == L
\* L[::-1]
GiantResult(L) == Reverse(L)

GsInit ==
    /\ gs_pc = "call"
    /\ \/ /\ gs_start \in 1..MaxStart
          /\ gs_target \in 1..MaxTarget
       \/ gs_start = DocStart /\ gs_target = DocTarget
    /\ gs_n \in 2..MaxOrder
    /\ gs_L = <<>> /\ gs_ret = <<>>

\* line 40: L = [target]
GiantStepsBegin ==
    /\ gs_pc = "call"
    /\ gs_L' = <<gs_target>>
    /\ gs_pc' = "loop"
    /\ UNCHANGED <<gs_start, gs_target, gs_n, gs_ret>>
    /\ UNCHANGED gsOthers

\* lines 41-42: one pass of the while loop
GiantStepsAppend ==
    /\ gs_pc = "loop"
    /\ GiantMore(Last(gs_L), gs_start, gs_n)
    /\ Len(gs_L) < MaxListLen
    /\ gs_L' = Append(gs_L, GiantNext(Last(gs_L), gs_n))
    /\ UNCHANGED <<gs_pc, gs_start, gs_target, gs_n, gs_ret>>
    /\ UNCHANGED gsOthers

\* line 43: the loop test fails; return L[::-1]
GiantStepsReturn ==
    /\ gs_pc = "loop"
    /\ ~GiantMore(Last(gs_L), gs_start, gs_n)
    /\ gs_ret' = GiantResult(gs_L)
    /\ gs_pc' = "returned"
    /\ UNCHANGED <<gs_start, gs_target, gs_n, gs_L>>
    /\ UNCHANGED gsOthers

GsNext ==
    \/ GiantStepsBegin
    \/ GiantStepsAppend
    \/ GiantStepsReturn

InitGiantSteps == GsInit /\ SqIdle /\ LwIdle /\ FnIdle /\ FibIdle /\ EuIdle
    /\ StIdle /\ MgIdle /\ RgIdle /\ BeIdle /\ RtIdle /\ F2Idle /\ CyIdle
    /\ LpIdle

SpecGiantSteps == InitGiantSteps /\ [][GsNext]_vars

StrictlyIncreasing(s) == \A i \in 1..(Len(s) - 1) : s[i] < s[i + 1]

\* the two calls of the docstring
GiantDocExamples ==
    (gs_start = DocStart /\ gs_target = DocTarget) =>
        /\ gs_n = 2 => gs_ret = <<66, 128, 253, 502, 1000>>
        /\ gs_n = 4 => gs_ret = <<65, 252, 1000>>

\* C5 as stated: whenever giant_steps returns, the list is strictly
\* increasing, its last element is target and its first exceeds start.
GiantStepsContract ==
    gs_pc = "returned" =>
        /\ StrictlyIncreasing(gs_ret)
        /\ Last(gs_ret) = gs_target
        /\ gs_ret[1] > gs_start
        /\ GiantDocExamples

\* C5 amended: the same whenever giant_steps returns and target > start.
GiantStepsContractAbove ==
    (gs_pc = "returned" /\ gs_target > gs_start) =>
        /\ StrictlyIncreasing(gs_ret)
        /\ Last(gs_ret) = gs_target
        /\ gs_ret[1] > gs_start
        /\ GiantDocExamples

\* the first call of the docstring has returned its five steps
GiantStepsDocReturned ==
    /\ gs_pc = "returned" /\ gs_start = DocStart /\ gs_target = DocTarget
    /\ gs_n = 2 /\ Len(gs_ret) = 5

\* the list L is strictly decreasing: each pass of the loop appends a value
\* below the last one
StrictlyDecreasing(s) == \A i \in 1..(Len(s) - 1) : s[i] > s[i + 1]

\* C20 as stated: giant_steps terminates for every start >= 1, target >= 1
\* and n >= 2.  The value appended depends on the last element only, so the
\* loop runs forever exactly when it appends a value that is not below the
\* last one: the loop ends iff L stays strictly decreasing.
GiantStepsTerminates ==
    gs_pc = "loop" => StrictlyDecreasing(gs_L)

\* the same with start >= 2 or n >= 3, where the loop does end
GiantStepsTerminatesAboveOne ==
    (gs_pc = "loop" /\ (gs_start >= 2 \/ gs_n >= 3)) =>
        /\ StrictlyDecreasing(gs_L)
        /\ Len(gs_L) < MaxListLen

(***************************************************************************)
(* isprime and list_primes.                                                *)
(***************************************************************************)
\* isprime is called with n in 0..MaxPrimeN-1, list_primes with MaxPrimeN
MaxPrimeN == 10000
\* the first witness bracket; the second ends at 341550071728321, beyond
\* every integer of the model
Bracket23 == 1373653

\* small_trailing, lines 17-19: entry i holds j when i = 2^j mod 2^(j+1) for
\* a j in 1..7, and 0 otherwise
SmallTrailing(i) ==
    LET js == {j \in 1..7 : i % (2 ^ (j + 1)) = 2 ^ j}
    IN  IF js = {} THEN 0 ELSE CHOOSE j \in js : TRUE

\* trailing lines 66-71: t = 8; n >>= 8; while not n & 0xff: ...
RECURSIVE TrailingBytes(_, _)
TrailingBytes(n, t) ==
    IF n % 256 # 0 THEN t + SmallTrailing(n % 256)
    ELSE TrailingBytes(n \div 256, t + 8)

trailing(n) ==
    IF n = 0 THEN 0
    ELSE IF n % 256 # 0 THEN SmallTrailing(n % 256)
    ELSE TrailingBytes(n \div 256, 8)

\* pow(a, d, n)
RECURSIVE PowMod(_, _, _)
PowMod(a, d, n) ==
    IF d = 0 THEN 1 % n
    ELSE LET h == PowMod(a, d \div 2, n)
             hh == (h * h) % n
         IN  IF d % 2 = 1 THEN (hh * (a % n)) % n ELSE hh

\* for r in range(1,s): x = x**2 % n; if x == m: return True
RECURSIVE MillerRabinSquarings(_, _, _, _)
MillerRabinSquarings(x, r, s, n) ==
    IF r >= s THEN FALSE
    ELSE LET x2 == (x * x) % n
         IN  IF x2 = n - 1 THEN TRUE
             ELSE MillerRabinSquarings(x2, r + 1, s, n)

\* test(a), lines 366-374, with m = n-1 = d * 2^s
MillerRabinTest(a, n, d, s) ==
    LET x == PowMod(a, d, n)
    IN  IF x = 1 \/ x = n - 1 THEN TRUE
        ELSE MillerRabinSquarings(x, 1, s, n)

small_odd_primes == <<3, 5, 7, 11, 13, 17, 19, 23, 29, 31, 37, 41, 43, 47>>

SeqRange(s) == {s[i] : i \in 1..Len(s)}

WitnessesBase2Only(n) == <<2>>
\* lines 376-381
Witnesses(n) ==
    IF n < Bracket23 THEN <<2, 3>> ELSE <<2, 3, 5, 7, 11, 13, 17>>

isprime(n) ==
    IF n % 2 = 0 THEN n = 2
    ELSE IF n < 50 THEN n \in SeqRange(small_odd_primes)
    ELSE IF \E p \in SeqRange(small_odd_primes) : n % p = 0 THEN FALSE
    ELSE LET m == n - 1
             s == trailing(m)
             d == m \div (2 ^ s)
         IN  \A a \in SeqRange(Witnesses(n)) : MillerRabinTest(a, n, d, s)

\* list_primes: the sieve, as the set of the entries left nonzero
RECURSIVE Sieve(_, _, _, _)
Sieve(i, lim, n, left) ==
    IF i > lim THEN left
    ELSE IF i \in left
      THEN Sieve(i + 1, lim, n,
                 left \ {j \in (i * i)..(n - 1) : (j - i * i) % i = 0})
      ELSE Sieve(i + 1, lim, n, left)

list_primes(n) == Sieve(2, FloorSqrt(n + 1), n + 1, 2..n)

PrimeTable == list_primes(MaxPrimeN)

FnInitIsprime ==
    /\ fn_pc = "call" /\ fn_op = "isprime"
    /\ fn_n \in 0..(MaxPrimeN - 1) /\ fn_res = 0

IsprimeCall ==
    /\ fn_pc = "call" /\ fn_op = "isprime"
    /\ fn_res' = isprime(fn_n)
    /\ fn_pc' = "done"
    /\ UNCHANGED <<fn_op, fn_n>>
    /\ UNCHANGED fnOthers

InitIsprime == FnInitIsprime /\ SqIdle /\ LwIdle /\ GsIdle /\ FibIdle /\ EuIdle
    /\ StIdle /\ MgIdle /\ RgIdle /\ BeIdle /\ RtIdle /\ F2Idle /\ CyIdle
    /\ LpIdle

SpecIsprime == InitIsprime /\ [][IsprimeCall]_vars

\* C6: for every n below 10,000, isprime(n) is true exactly when n is in
\* list_primes(10000).
IsprimeMatchesSieve ==
    (fn_pc = "done" /\ fn_op = "isprime") =>
        (fn_res <=> fn_n \in PrimeTable)

\* 8321 = 53 * 157 passes the trial division and the Miller-Rabin test to
\* base 2, and isprime has rejected it
IsprimeRejectsPseudoprime ==
    /\ fn_pc = "done" /\ fn_op = "isprime" /\ fn_n = 8321
    /\ MillerRabinTest(2, 8321, 65, 7)
    /\ fn_res = FALSE

(***************************************************************************)
(* mangoldt.  A result is <<"ln", p>> for ctx.ln(p) and <<"zero", 0>> for  *)
(* ctx.zero.                                                               *)
(***************************************************************************)
\* mangoldt is called with n in 0..MaxMangoldtN
MaxMangoldtN == 10000

LnOf(p) == <<"ln", p>>
CtxZero == <<"zero", 0>>

\* a & b
RECURSIVE BitAnd(_, _)
BitAnd(a, b) ==
    IF a = 0 \/ b = 0 THEN 0
    ELSE (a % 2) * (b % 2) + 2 * BitAnd(a \div 2, b \div 2)

\* the small-factor branch without the remainder test of the division loop
SmallFactorPowerUnchecked(q, p) == LnOf(p)
\* lines 662-667: q, r = n // p, 0; while q > 1: q, r = divmod(q, p) ...
RECURSIVE SmallFactorPower(_, _)
SmallFactorPower(q, p) ==
    IF q > 1
      THEN IF q % p # 0 THEN CtxZero ELSE SmallFactorPower(q \div p, p)
      ELSE LnOf(p)

small_factors == <<3, 5, 7, 11, 13, 17, 19, 23, 29, 31>>

\* b^k, or cap + 1 when b^k exceeds cap
RECURSIVE PowCap(_, _, _)
PowCap(b, k, cap) ==
    IF k = 0 THEN 1
    ELSE LET a == PowCap(b, k - 1, cap)
         IN  IF b = 0 THEN 0
             ELSE IF a > cap \div b THEN cap + 1 ELSE a * b

\* the largest f with f^k <= n
RECURSIVE FloorRootFrom(_, _, _)
FloorRootFrom(n, k, f) ==
    IF PowCap(f + 1, k, n) > n THEN f ELSE FloorRootFrom(n, k, f + 1)

\* whether (A/2)^k <= n, with (A/2)^j held as whole + frac / 2^j
RECURSIVE HalfPowLeq(_, _, _, _, _, _)
HalfPowLeq(A, k, n, j, whole, frac) ==
    IF whole > n THEN FALSE
    ELSE IF j = k THEN whole < n \/ frac = 0
    ELSE LET t == A * whole
             u == (t % 2) * (2 ^ j) + A * frac
         IN  HalfPowLeq(A, k, n, j + 1,
                        t \div 2 + u \div (2 ^ (j + 1)), u % (2 ^ (j + 1)))

\* int(n**(1./k) + 0.5): the integer nearest the k-th root of n (a double
\* resolves the root of an n of this size far below the distance to a half)
RoundRoot(n, k) ==
    LET f == FloorRootFrom(n, k, 0)
    IN  IF HalfPowLeq(2 * f + 1, k, n, 0, 1, 0) THEN f + 1 ELSE f

\* lines 678-679: if p ** k == n: if ctx.isprime(p)
RootSearchHit(n, k, p) == p ^ k = n /\ isprime(p)

\* lines 673-681: the k-th-root search
RECURSIVE RootSearch(_, _)
RootSearch(n, k) ==
    LET p == RoundRoot(n, k)
    IN  IF p < 2 THEN CtxZero
        ELSE IF RootSearchHit(n, k, p) THEN LnOf(p)
        ELSE RootSearch(n, k + 1)

\* the scaled exponent standing for the 30 of 10**30 (line 671)
Digits30 == 4
FeasibilityBound == 10 ^ Digits30

Unsupported == <<"raise", "NotImplementedError">>
NeedsSearch == <<"search", 0>>

\* the bound read an order of magnitude too low
AboveBoundTooEarly(n) == n > FeasibilityBound \div 10
\* line 671: if n > 10**30
AboveBound(n) == n > FeasibilityBound

\* lines 647-669: what mangoldt returns before the root search, or
\* NeedsSearch when it gets as far as line 671
MangoldtBeforeSearch(n) ==
    IF n < 2 THEN CtxZero
    ELSE IF n % 2 = 0
      THEN IF BitAnd(n, n - 1) = 0 THEN LnOf(2) ELSE CtxZero
    ELSE LET hits == {i \in 1..Len(small_factors) : n % small_factors[i] = 0}
         IN  IF hits # {}
               THEN LET i == CHOOSE h \in hits : \A g \in hits : h <= g
                        p == small_factors[i]
                    IN  SmallFactorPower(n \div p, p)
             ELSE IF isprime(n) THEN LnOf(n)
             ELSE NeedsSearch

\* lines 647-681
mangoldt(n) ==
    LET early == MangoldtBeforeSearch(n)
    IN  IF early # NeedsSearch THEN early
        ELSE IF AboveBound(n) THEN Unsupported
        ELSE RootSearch(n, 2)

FnInitMangoldt ==
    /\ fn_pc = "call" /\ fn_op = "mangoldt"
    /\ fn_n \in 0..MaxMangoldtN /\ fn_res = 0

MangoldtCall ==
    /\ fn_pc = "call" /\ fn_op = "mangoldt"
    /\ fn_res' = mangoldt(fn_n)
    /\ fn_pc' = "done"
    /\ UNCHANGED <<fn_op, fn_n>>
    /\ UNCHANGED fnOthers

InitMangoldt == FnInitMangoldt /\ SqIdle /\ LwIdle /\ GsIdle /\ FibIdle /\ EuIdle
    /\ StIdle /\ MgIdle /\ RgIdle /\ BeIdle /\ RtIdle /\ F2Idle /\ CyIdle
    /\ LpIdle

SpecMangoldt == InitMangoldt /\ [][MangoldtCall]_vars

\* the least divisor of n that is at least d (n >= 2): the least prime
\* factor of n when d = 2
RECURSIVE LeastDivisorFrom(_, _)
LeastDivisorFrom(n, d) ==
    IF d * d > n THEN n
    ELSE IF n % d = 0 THEN d ELSE LeastDivisorFrom(n, d + 1)

RECURSIVE StripFactor(_, _)
StripFactor(n, q) == IF n % q = 0 THEN StripFactor(n \div q, q) ELSE n

\* n = p^k for a prime p and some k >= 1: n is a power of its least prime
\* factor
IsPrimePower(n) == n >= 2 /\ StripFactor(n, LeastDivisorFrom(n, 2)) = 1

\* C7: for every n in 0..10000 mangoldt(n) is ln(p) exactly when n is a
\* power p^k, k >= 1, of the prime p, and is 0 otherwise.
MangoldtIsLogOfPrimeBase ==
    (fn_pc = "done" /\ fn_op = "mangoldt") =>
        IF IsPrimePower(fn_n)
          THEN fn_res = LnOf(LeastDivisorFrom(fn_n, 2))
          ELSE fn_res = CtxZero

\* the square of a prime above 31 has been found by the k-th-root search
MangoldtRootSearch ==
    /\ fn_pc = "done" /\ fn_op = "mangoldt"
    /\ fn_n = 37 * 37 /\ fn_res = LnOf(37)
    /\ RoundRoot(fn_n, 2) = 37

(***************************************************************************)
(* moebius.                                                                *)
(***************************************************************************)
\* moebius is called with n in 1..MaxMoebiusN
MaxMoebiusN == 1000

\* sum(p % f for f in factors)
RECURSIVE SumOfRemainders(_, _)
SumOfRemainders(p, factors) ==
    IF factors = <<>> THEN 0
    ELSE (p % Head(factors)) + SumOfRemainders(p, Tail(factors))

KeepsEveryDivisor(p, factors) == TRUE
\* line 406: if not sum(p % f for f in factors)
KeepsFactor(p, factors) == SumOfRemainders(p, factors) = 0

\* lines 402-408: the loop over p in lo..hi, from the list `factors`; the
\* result is <<returned, value, factors>>, `returned` telling whether the
\* loop has left moebius by `return 0`
RECURSIVE MoebiusLoop(_, _, _, _)
MoebiusLoop(n, lo, hi, factors) ==
    IF lo > hi THEN <<FALSE, 0, factors>>
    ELSE IF lo = hi
      THEN IF n % lo # 0 THEN <<FALSE, 0, factors>>
           ELSE IF n % (lo * lo) = 0 THEN <<TRUE, 0, factors>>
           ELSE IF KeepsFactor(lo, factors)
             THEN <<FALSE, 0, Append(factors, lo)>>
             ELSE <<FALSE, 0, factors>>
    ELSE LET mid == (lo + hi) \div 2
             left == MoebiusLoop(n, lo, mid, factors)
         IN  IF left[1] THEN left
             ELSE MoebiusLoop(n, mid + 1, hi, left[3])

\* the rest of moebius after line 398, for n >= 0
MoebiusOfAbs(n) ==
    IF n < 2 THEN <<n, <<>>>>
    ELSE LET r == MoebiusLoop(n, 2, n, <<>>)
         IN  IF r[1] THEN <<r[2], r[3]>>
             ELSE <<(-1) ^ Len(r[3]), r[3]>>

\* moebius, as <<value returned, the list of factors it ended with>>;
\* line 398: n = abs(int(n))
MoebiusRun(n) == MoebiusOfAbs(Abs(n))

FnInitMoebius ==
    /\ fn_pc = "call" /\ fn_op = "moebius"
    /\ fn_n \in 1..MaxMoebiusN /\ fn_res = 0

MoebiusCall ==
    /\ fn_pc = "call" /\ fn_op = "moebius"
    /\ fn_res' = MoebiusRun(fn_n)
    /\ fn_pc' = "done"
    /\ UNCHANGED <<fn_op, fn_n>>
    /\ UNCHANGED fnOthers

InitMoebius == FnInitMoebius /\ SqIdle /\ LwIdle /\ GsIdle /\ FibIdle /\ EuIdle
    /\ StIdle /\ MgIdle /\ RgIdle /\ BeIdle /\ RtIdle /\ F2Idle /\ CyIdle
    /\ LpIdle

SpecMoebius == InitMoebius /\ [][MoebiusCall]_vars

IsPrimeByDivision(p) == p >= 2 /\ \A d \in 2..(p - 1) : p % d # 0
PrimeDivisors(n) == {p \in 2..n : n % p = 0 /\ IsPrimeByDivision(p)}
HasSquaredPrime(n) == \E p \in PrimeDivisors(n) : n % (p * p) = 0

\* C8: for every n in 1..1000 moebius(n) is 0 exactly when the square of a
\* prime divides n and is otherwise (-1)^(number of distinct primes of n);
\* for a squarefree n the factor list ends as long as n has distinct primes.
MoebiusMatchesFactorization ==
    (fn_pc = "done" /\ fn_op = "moebius") =>
        /\ fn_res[1] = 0 <=> HasSquaredPrime(fn_n)
        /\ ~HasSquaredPrime(fn_n) =>
             /\ fn_res[1] = (-1) ^ Cardinality(PrimeDivisors(fn_n))
             /\ Len(fn_res[2]) = Cardinality(PrimeDivisors(fn_n))

\* moebius(30) has returned -1 from the three factors it kept
MoebiusOfThirty ==
    /\ fn_pc = "done" /\ fn_op = "moebius" /\ fn_n = 30
    /\ fn_res = <<-1, <<2, 6, 30>>>>


(***************************************************************************)
(* ifib (libintmath.py, lines 280-300).                                    *)
(***************************************************************************)
\* ifib is called with n in -MaxFib..MaxFib
MaxFib == 20

\* the sign with the exponent n + 1 read as n
FibSignShifted(n) == (-1) ^ (-n)
\* line 285: (-1)**(-n+1), for n < 0
FibSign(n) == (-1) ^ (-n + 1)

FibInit ==
    /\ fib_pc = "call" /\ fib_arg \in (-MaxFib)..MaxFib
    /\ fib_n = 0 /\ fib_a = 0 /\ fib_b = 0 /\ fib_p = 0 /\ fib_q = 0
    /\ fib_res = 0

\* lines 284-290: a negative n calls ifib(-n); a, b, p, q = 1, 0, 0, 1
IfibEnter ==
    /\ fib_pc = "call"
    /\ fib_n' = IF fib_arg < 0 THEN -fib_arg ELSE fib_arg
    /\ fib_a' = 1 /\ fib_b' = 0 /\ fib_p' = 0 /\ fib_q' = 1
    /\ fib_pc' = "loop"
    /\ UNCHANGED <<fib_arg, fib_res>>
    /\ UNCHANGED fibOthers

\* lines 292-295: n & 1
IfibOddStep ==
    /\ fib_pc = "loop" /\ fib_n # 0 /\ fib_n % 2 = 1
    /\ LET aq == fib_a * fib_q
       IN  /\ fib_a' = fib_b * fib_q + aq + fib_a * fib_p
           /\ fib_b' = fib_b * fib_p + aq
    /\ fib_n' = fib_n - 1
    /\ UNCHANGED <<fib_pc, fib_arg, fib_p, fib_q, fib_res>>
    /\ UNCHANGED fibOthers

\* lines 296-299: n even
IfibEvenStep ==
    /\ fib_pc = "loop" /\ fib_n # 0 /\ fib_n % 2 = 0
    /\ LET qq == fib_q * fib_q
       IN  /\ fib_p' = fib_p * fib_p + qq
           /\ fib_q' = qq + 2 * fib_p * fib_q
    /\ fib_n' = fib_n \div 2
    /\ UNCHANGED <<fib_pc, fib_arg, fib_a, fib_b, fib_res>>
    /\ UNCHANGED fibOthers

\* line 300: return b; line 285: the caller with n < 0 multiplies by the sign
IfibReturn ==
    /\ fib_pc = "loop" /\ fib_n = 0
    /\ fib_res' = IF fib_arg < 0 THEN FibSign(fib_arg) * fib_b ELSE fib_b
    /\ fib_pc' = "done"
    /\ UNCHANGED <<fib_arg, fib_n, fib_a, fib_b, fib_p, fib_q>>
    /\ UNCHANGED fibOthers

FibNext ==
    \/ IfibEnter
    \/ IfibOddStep
    \/ IfibEvenStep
    \/ IfibReturn

InitIfib == FibInit /\ SqIdle /\ LwIdle /\ GsIdle /\ FnIdle /\ EuIdle
    /\ StIdle /\ MgIdle /\ RgIdle /\ BeIdle /\ RtIdle /\ F2Idle /\ CyIdle
    /\ LpIdle

SpecIfib == InitIfib /\ [][FibNext]_vars

\* <<F(n), F(n + 1)>> by the recurrence F(n) = F(n-1) + F(n-2), n >= 0
RECURSIVE FibUp(_)
FibUp(n) ==
    IF n = 0 THEN <<0, 1>>
    ELSE LET pr == FibUp(n - 1) IN <<pr[2], pr[1] + pr[2]>>

\* <<F(n), F(n + 1)>> by the same recurrence read backwards, n <= 0
RECURSIVE FibDown(_)
FibDown(n) ==
    IF n = 0 THEN <<0, 1>>
    ELSE LET pr == FibDown(n + 1) IN <<pr[2] - pr[1], pr[1]>>

Fibonacci(n) == IF n >= 0 THEN FibUp(n)[1] ELSE FibDown(n)[1]

\* C9: for n in -20..20, ifib(n) is the Fibonacci number F(n) of the
\* recurrence F(0) = 0, F(1) = 1, F(n) = F(n-1) + F(n-2) extended to negative
\* indices, so ifib(-n) = (-1)^(n+1) * F(n) for n > 0; every step of the
\* doubling loop lowers n and keeps it at least 0, so the loop reaches n = 0
\* and returns.
IfibIsFibonacci ==
    /\ [](fib_pc = "done" =>
            /\ fib_res = Fibonacci(fib_arg)
            /\ fib_arg < 0 =>
                 fib_res = ((-1) ^ ((-fib_arg) + 1)) * Fibonacci(-fib_arg)
            /\ fib_n = 0)
    /\ [][(fib_pc = "loop" /\ fib_pc' = "loop") =>
             (fib_n' < fib_n /\ fib_n' >= 0)]_vars

IfibNegativeReturned ==
    fib_pc = "done" /\ fib_arg = -20 /\ fib_res = -6765


(***************************************************************************)
(* eulernum (libintmath.py, lines 437-468).                                *)
(***************************************************************************)
\* eulernum is called with m in 0..MaxEulerM
MaxEulerM == 10

\* the sign left out
EulerSignPlus(n) == 1
\* line 468: (-1)**(n//2)
EulerSign(n) == (-1) ^ (n \div 2)

\* line 467: the sum of a[k+1] for k in range(top, -1, -2)
RECURSIVE SumEveryOther(_, _)
SumEveryOther(a, k) ==
    IF k < 0 THEN 0 ELSE a[k + 2] + SumEveryOther(a, k - 2)

EuInit ==
    /\ eu_pc = "call" /\ eu_m \in 0..MaxEulerM
    /\ eu_n = 0 /\ eu_j = 0 /\ eu_a = <<>> /\ eu_suma = 0 /\ eu_res = 0

\* lines 455-456: if m & 1: return MPZ_ZERO
EulernumOdd ==
    /\ eu_pc = "call" /\ eu_m % 2 = 1
    /\ eu_res' = 0
    /\ eu_pc' = "done"
    /\ UNCHANGED <<eu_m, eu_n, eu_j, eu_a, eu_suma>>
    /\ UNCHANGED euOthers

\* lines 457-461: n = m; a = [0,0,1,0,0,0]; suma = 1; the outer loop starts
\* with n = 1 when range(1, m+1) is not empty
EulernumEnter ==
    /\ eu_pc = "call" /\ eu_m % 2 = 0
    /\ eu_a' = <<0, 0, 1, 0, 0, 0>>
    /\ eu_suma' = 1
    /\ IF 1 < eu_m + 1
         THEN eu_n' = 1 /\ eu_j' = 2 /\ eu_pc' = "inner"
         ELSE eu_n' = eu_m /\ eu_j' = 0 /\ eu_pc' = "ret"
    /\ UNCHANGED <<eu_m, eu_res>>
    /\ UNCHANGED euOthers

\* lines 461-462: for j in range(n+1, -1, -2): a[j+1] = (j-1)*a[j] + (j+1)*a[j+2]
EulernumInner ==
    /\ eu_pc = "inner"
    /\ eu_a' = [eu_a EXCEPT ![eu_j + 2] =
                   (eu_j - 1) * eu_a[eu_j + 1] + (eu_j + 1) * eu_a[eu_j + 3]]
    /\ eu_j' = eu_j - 2
    /\ eu_pc' = IF eu_j - 2 > -1 THEN "inner" ELSE "sum"
    /\ UNCHANGED <<eu_m, eu_n, eu_suma, eu_res>>
    /\ UNCHANGED euOthers

\* lines 463-466: a.append(0); suma = 0; for k in range(n+1, -1, -2):
\* suma += a[k+1]; then the next n of range(1, m+1)
EulernumSum ==
    /\ eu_pc = "sum"
    /\ eu_a' = Append(eu_a, 0)
    /\ eu_suma' = SumEveryOther(eu_a', eu_n + 1)
    /\ IF eu_n + 1 < eu_m + 1
         THEN eu_n' = eu_n + 1 /\ eu_j' = eu_n + 2 /\ eu_pc' = "inner"
         ELSE eu_n' = eu_n /\ eu_j' = eu_j /\ eu_pc' = "ret"
    /\ UNCHANGED <<eu_m, eu_res>>
    /\ UNCHANGED euOthers

\* line 468: return ((-1)**(n//2))*suma // 2**n
EulernumReturn ==
    /\ eu_pc = "ret"
    /\ eu_res' = (EulerSign(eu_n) * eu_suma) \div (2 ^ eu_n)
    /\ eu_pc' = "done"
    /\ UNCHANGED <<eu_m, eu_n, eu_j, eu_a, eu_suma>>
    /\ UNCHANGED euOthers

EuNext ==
    \/ EulernumOdd
    \/ EulernumEnter
    \/ EulernumInner
    \/ EulernumSum
    \/ EulernumReturn

InitEulernum == EuInit /\ SqIdle /\ LwIdle /\ GsIdle /\ FnIdle /\ FibIdle
    /\ StIdle /\ MgIdle /\ RgIdle /\ BeIdle /\ RtIdle /\ F2Idle /\ CyIdle
    /\ LpIdle

SpecEulernum == InitEulernum /\ [][EuNext]_vars

\* the binomial coefficient C(n, k)
RECURSIVE Binomial(_, _)
Binomial(n, k) ==
    IF k = 0 THEN 1 ELSE (Binomial(n, k - 1) * (n - k + 1)) \div k

\* the sum over k = 0..top of C(2n, 2k) * E(2k)
RECURSIVE EulerNumber(_)
RECURSIVE EulerSumBelow(_, _)
EulerSumBelow(n, top) ==
    IF top < 0 THEN 0
    ELSE Binomial(2 * n, 2 * top) * EulerNumber(2 * top)
           + EulerSumBelow(n, top - 1)

\* E(m) for even m: E(0) = 1 and the sum over k = 0..n of C(2n,2k) E(2k) is 0
EulerNumber(m) ==
    IF m = 0 THEN 1 ELSE -EulerSumBelow(m \div 2, (m \div 2) - 1)

DocEulerNumbers == <<1, 0, -1, 0, 5, 0, -61, 0, 1385, 0, -50521>>

\* C10: eulernum(m) is 0 for odd m and the Euler number E(m) for even m, the
\* values for m = 0..10 being 1, 0, -1, 0, 5, 0, -61, 0, 1385, 0, -50521; the
\* signed sum is a multiple of 2^m, so the closing floor division is exact.
EulernumIsEulerNumber ==
    eu_pc = "done" =>
        /\ eu_m % 2 = 1 => eu_res = 0
        /\ eu_m % 2 = 0 =>
             /\ eu_res = EulerNumber(eu_m)
             /\ eu_n = eu_m
             /\ (EulerSign(eu_n) * eu_suma) % (2 ^ eu_m) = 0
             /\ eu_res * (2 ^ eu_m) = EulerSign(eu_n) * eu_suma
        /\ eu_m <= 10 => eu_res = DocEulerNumbers[eu_m + 1]

EulernumOfTen ==
    eu_pc = "done" /\ eu_m = 10 /\ eu_res = -50521 /\ eu_suma = 51733504

(***************************************************************************)
(* stirling1 and stirling2 (libintmath.py, lines 470-505).                 *)
(***************************************************************************)
\* n and k range over -StirlingNeg..MaxStirling
MaxStirling == 5
StirlingNeg == 2

\* the argument test with the test of k left out
StirlingInvalidNOnly(n, k) == n < 0
\* lines 474 and 491: if n < 0 or k < 0
StirlingInvalid(n, k) == n < 0 \/ k < 0

\* lines 483-484: for j in range(min(k, m), 0, -1): L[j] = (m-1)*L[j] + L[j-1]
\* (L[i] of the source is L[i + 1])
RECURSIVE Stirling1Row(_, _, _)
Stirling1Row(L, m, j) ==
    IF j < 1 THEN L
    ELSE Stirling1Row([L EXCEPT ![j + 1] = (m - 1) * L[j + 1] + L[j]],
                      m, j - 1)

\* line 482: for m in range(2, n+1)
RECURSIVE Stirling1Rows(_, _, _, _)
Stirling1Rows(L, m, n, k) ==
    IF m > n THEN L
    ELSE Stirling1Rows(Stirling1Row(L, m, IF k < m THEN k ELSE m),
                       m + 1, n, k)

\* lines 476-485, for n >= 0 and k >= 0
stirling1(n, k) ==
    IF k >= n THEN (IF n = k THEN 1 ELSE 0)
    ELSE IF k < 1 THEN 0
    ELSE LET L == [i \in 1..(k + 1) |-> IF i = 2 THEN 1 ELSE 0]
         IN  ((-1) ^ (n + k)) * Stirling1Rows(L, 2, n, k)[k + 1]

\* math.factorial of a negative integer raises this error
FactorialValueError == "ValueError: factorial() not defined for negative values"

RECURSIVE FactorialOf(_)
FactorialOf(n) == IF n <= 1 THEN 1 ELSE n * FactorialOf(n - 1)

\* lines 321 and 328: ifac = lru_cache(maxsize=1024)(math.factorial); the
\* value, or the error raised
ifac(n) == IF n < 0 THEN FactorialValueError ELSE FactorialOf(n)

\* lines 499-504: for j in range(k+1): s -= or += t * j**n; t = t*(k-j)//(j+1)
RECURSIVE Stirling2Sum(_, _, _, _, _)
Stirling2Sum(n, k, j, s, t) ==
    IF j > k THEN s
    ELSE LET term == t * (j ^ n)
             s2 == IF (k + j) % 2 = 1 THEN s - term ELSE s + term
         IN  Stirling2Sum(n, k, j + 1, s2, (t * (k - j)) \div (j + 1))

\* lines 493-505, for n >= 0 and k >= 0
stirling2(n, k) ==
    IF k >= n THEN (IF n = k THEN 1 ELSE 0)
    ELSE IF k <= 1 THEN (IF k = 1 THEN 1 ELSE 0)
    ELSE Stirling2Sum(n, k, 0, 0, 1) \div ifac(k)

StInit ==
    /\ st_pc = "call" /\ st_fn \in {"stirling1", "stirling2"}
    /\ st_n \in (-StirlingNeg)..MaxStirling
    /\ st_k \in (-StirlingNeg)..MaxStirling
    /\ st_res = "none"

\* lines 474-475 and 491-492: raise ValueError
StirlingRaise ==
    /\ st_pc = "call" /\ StirlingInvalid(st_n, st_k)
    /\ st_pc' = "raised"
    /\ UNCHANGED <<st_fn, st_n, st_k, st_res>>
    /\ UNCHANGED stOthers

Stirling1Return ==
    /\ st_pc = "call" /\ st_fn = "stirling1" /\ ~StirlingInvalid(st_n, st_k)
    /\ st_res' = stirling1(st_n, st_k)
    /\ st_pc' = "returned"
    /\ UNCHANGED <<st_fn, st_n, st_k>>
    /\ UNCHANGED stOthers

Stirling2Return ==
    /\ st_pc = "call" /\ st_fn = "stirling2" /\ ~StirlingInvalid(st_n, st_k)
    /\ st_res' = stirling2(st_n, st_k)
    /\ st_pc' = "returned"
    /\ UNCHANGED <<st_fn, st_n, st_k>>
    /\ UNCHANGED stOthers

StNext ==
    \/ StirlingRaise
    \/ Stirling1Return
    \/ Stirling2Return

InitStirling ==
    StInit /\ SqIdle /\ LwIdle /\ GsIdle /\ FnIdle /\ FibIdle /\ EuIdle
    /\ MgIdle /\ RgIdle /\ BeIdle /\ RtIdle /\ F2Idle /\ CyIdle /\ LpIdle

SpecStirling == InitStirling /\ [][StNext]_vars

\* C11: stirling1 and stirling2 raise the invalid-argument error whenever
\* n < 0 or k < 0, before anything is computed (no value exists at the
\* raise), and never raise it when n >= 0 and k >= 0: such a call returns an
\* integer.
StirlingRaisesOnNegative ==
    /\ [](/\ st_pc = "raised" =>
               ((st_n < 0 \/ st_k < 0) /\ st_res = "none")
          /\ st_pc = "returned" =>
               (st_n >= 0 /\ st_k >= 0 /\ st_res \in Int))
    /\ [][st_pc = "call" =>
             IF st_n < 0 \/ st_k < 0
               THEN st_pc' = "raised" /\ st_res' = "none"
               ELSE st_pc' = "returned"]_vars

StirlingNegativeKRaised ==
    st_pc = "raised" /\ st_fn = "stirling2" /\ st_n = 3 /\ st_k = -1

(***************************************************************************)
(* mangoldt, with the root search taken one pass at a time and arguments   *)
(* on both sides of the feasibility bound.                                 *)
(***************************************************************************)
\* n ranges over 0..MaxSearchN
MaxSearchN == 10300

MgInit ==
    /\ mg_pc = "call" /\ mg_n \in 0..MaxSearchN
    /\ mg_k = 0 /\ mg_res = NoValue

\* lines 647-669: a return before the root search
MangoldtEarlyReturn ==
    /\ mg_pc = "call" /\ MangoldtBeforeSearch(mg_n) # NeedsSearch
    /\ mg_res' = MangoldtBeforeSearch(mg_n)
    /\ mg_pc' = "returned"
    /\ UNCHANGED <<mg_n, mg_k>>
    /\ UNCHANGED mgOthers

\* lines 671-672: raise NotImplementedError
MangoldtUnsupported ==
    /\ mg_pc = "call" /\ MangoldtBeforeSearch(mg_n) = NeedsSearch
    /\ AboveBound(mg_n)
    /\ mg_pc' = "raised"
    /\ UNCHANGED <<mg_n, mg_k, mg_res>>
    /\ UNCHANGED mgOthers

\* line 673: k = 2
MangoldtSearchBegin ==
    /\ mg_pc = "call" /\ MangoldtBeforeSearch(mg_n) = NeedsSearch
    /\ ~AboveBound(mg_n)
    /\ mg_k' = 2
    /\ mg_pc' = "search"
    /\ UNCHANGED <<mg_n, mg_res>>
    /\ UNCHANGED mgOthers

\* lines 675-677: p = int(n**(1./k) + 0.5); if p < 2: return ctx.zero
MangoldtSearchEnd ==
    /\ mg_pc = "search" /\ RoundRoot(mg_n, mg_k) < 2
    /\ mg_res' = CtxZero
    /\ mg_pc' = "returned"
    /\ UNCHANGED <<mg_n, mg_k>>
    /\ UNCHANGED mgOthers

\* lines 678-680: if p ** k == n: if ctx.isprime(p): return ctx.ln(p)
MangoldtSearchHit ==
    /\ mg_pc = "search" /\ RoundRoot(mg_n, mg_k) >= 2
    /\ RootSearchHit(mg_n, mg_k, RoundRoot(mg_n, mg_k))
    /\ mg_res' = LnOf(RoundRoot(mg_n, mg_k))
    /\ mg_pc' = "returned"
    /\ UNCHANGED <<mg_n, mg_k>>
    /\ UNCHANGED mgOthers

\* line 681: k += 1
MangoldtSearchNext ==
    /\ mg_pc = "search" /\ RoundRoot(mg_n, mg_k) >= 2
    /\ ~RootSearchHit(mg_n, mg_k, RoundRoot(mg_n, mg_k))
    /\ mg_k' = mg_k + 1
    /\ UNCHANGED <<mg_pc, mg_n, mg_res>>
    /\ UNCHANGED mgOthers

MgNext ==
    \/ MangoldtEarlyReturn
    \/ MangoldtUnsupported
    \/ MangoldtSearchBegin
    \/ MangoldtSearchEnd
    \/ MangoldtSearchHit
    \/ MangoldtSearchNext

InitMangoldtSearch ==
    MgInit /\ SqIdle /\ LwIdle /\ GsIdle /\ FnIdle /\ FibIdle /\ EuIdle
    /\ StIdle /\ RgIdle /\ BeIdle /\ RtIdle /\ F2Idle /\ CyIdle /\ LpIdle

SpecMangoldtSearch == InitMangoldtSearch /\ [][MgNext]_vars

\* C12: mangoldt raises the Unsupported error only for n above the
\* feasibility bound, and there only for an odd n without a prime factor among
\* 3..31 that fails the primality test; for every n up to the bound it never
\* raises, and its root search cannot run on: it has made a pass for each k
\* below the current one, none of them with a rounded root below 2, k stays
\* at most twice the bit length of n, and a search that ends on a rounded
\* root below 2 returns zero.
MangoldtRaisesOnlyAboveBound ==
    /\ mg_pc = "raised" =>
         /\ mg_n > FeasibilityBound
         /\ mg_n % 2 = 1
         /\ \A i \in 1..Len(small_factors) : mg_n % small_factors[i] # 0
         /\ ~isprime(mg_n)
    /\ (mg_pc # "idle" /\ mg_n <= FeasibilityBound) => mg_pc # "raised"
    /\ mg_pc = "search" =>
         /\ mg_k >= 2 /\ mg_k <= 2 * BitLength(mg_n)
         /\ \A j \in 2..(mg_k - 1) : RoundRoot(mg_n, j) >= 2
    /\ (mg_pc = "returned" /\ mg_k >= 2) =>
         /\ \A j \in 2..(mg_k - 1) : RoundRoot(mg_n, j) >= 2
         /\ RoundRoot(mg_n, mg_k) < 2 => mg_res = CtxZero
         /\ RoundRoot(mg_n, mg_k) >= 2 => mg_res = LnOf(RoundRoot(mg_n, mg_k))

MangoldtRaisedAboveBound ==
    mg_pc = "raised" /\ mg_n = 37 * 277

(***************************************************************************)
(* The function registry (functions.py, lines 9, 16-43 and 61-67).         *)
(***************************************************************************)
\* at most MaxRegistrations calls of defun / defun_wrapped
MaxRegistrations == 3

FunctionNames == {"root", "zeta"}
Implementations == {"f1", "f2"}
NoEntry == <<"none", FALSE>>

\* a registration that leaves a name already registered alone
RegisterKeepFirst(defined, name, f, wrap) ==
    IF defined[name] # NoEntry THEN defined
    ELSE [defined EXCEPT ![name] = <<f, wrap>>]
\* lines 62 and 66: SpecialFunctions.defined_functions[f.__name__] = f, wrap
Register(defined, name, f, wrap) == [defined EXCEPT ![name] = <<f, wrap>>]

\* lines 41-43, the default _wrap_specfun: setattr(cls, name, f)
WrapSpecfun(f, wrap) == f

\* at most MaxContexts contexts are constructed
MaxContexts == 2
\* lines 22 and 38: what __init__ assigns on self
InstanceAttributes == {"_misc_const_cache", "zetazero_memoized"}

\* at most MaxStatics calls of defun_static
MaxStatics == 1

\* the attribute name looked up on a context: the instance's own __dict__
\* first, then the class of the context, where _wrap_specfun has put the
\* functions, then SpecialFunctions
BoundOn(own, attrs, base, name) ==
    IF name \in own THEN "own"
    ELSE IF attrs[name] # "unset" THEN attrs[name]
    ELSE base[name]

\* line 9: defined_functions = {}; no context constructed yet
RgInit ==
    /\ rg_defined = [n \in FunctionNames |-> NoEntry]
    /\ rg_attrs = [n \in FunctionNames |-> "unset"]
    /\ rg_calls = [n \in FunctionNames |-> NoEntry]
    /\ rg_derived \in BOOLEAN
    /\ rg_base = [n \in FunctionNames |-> "unset"]
    /\ rg_statics = 0
    /\ rg_log = <<>>
    /\ rg_fresh = FALSE
    /\ rg_ctxs = <<>>

\* lines 65-67: defun(f), f.__name__ being name
Defun ==
    \E name \in FunctionNames, f \in Implementations :
        /\ Len(rg_log) < MaxRegistrations
        /\ rg_defined' = Register(rg_defined, name, f, FALSE)
        /\ rg_log' = Append(rg_log, <<name, f, FALSE>>)
        /\ rg_fresh' = FALSE
        /\ UNCHANGED <<rg_attrs, rg_derived, rg_base, rg_statics, rg_calls,
                       rg_ctxs>>
        /\ UNCHANGED rgOthers

\* lines 61-63: defun_wrapped(f)
DefunWrapped ==
    \E name \in FunctionNames, f \in Implementations :
        /\ Len(rg_log) < MaxRegistrations
        /\ rg_defined' = Register(rg_defined, name, f, TRUE)
        /\ rg_log' = Append(rg_log, <<name, f, TRUE>>)
        /\ rg_fresh' = FALSE
        /\ UNCHANGED <<rg_attrs, rg_derived, rg_base, rg_statics, rg_calls,
                       rg_ctxs>>
        /\ UNCHANGED rgOthers

\* lines 16-20: for name in cls.defined_functions: f, wrap = ...;
\* cls._wrap_specfun(name, f, wrap), which sets the attribute of the class;
\* lines 22 and 38 set the attributes of the instance
ConstructContext ==
    /\ Len(rg_ctxs) < MaxContexts
    /\ rg_ctxs' = Append(rg_ctxs, InstanceAttributes)
    /\ rg_calls' = [n \in FunctionNames |->
                      IF rg_defined[n] # NoEntry THEN rg_defined[n]
                      ELSE rg_calls[n]]
    /\ rg_attrs' = [n \in FunctionNames |->
                      IF rg_defined[n] # NoEntry
                        THEN WrapSpecfun(rg_defined[n][1], rg_defined[n][2])
                        ELSE rg_attrs[n]]
    /\ rg_fresh' = TRUE
    /\ UNCHANGED <<rg_defined, rg_log, rg_derived, rg_base, rg_statics>>
    /\ UNCHANGED rgOthers

\* lines 69-71: defun_static(f): setattr(SpecialFunctions, f.__name__, f),
\* at once and without an entry in defined_functions
DefunStatic ==
    \E name \in FunctionNames, f \in Implementations :
        /\ rg_statics < MaxStatics
        /\ rg_statics' = rg_statics + 1
        /\ IF rg_derived
             THEN /\ rg_base' = [rg_base EXCEPT ![name] = f]
                  /\ UNCHANGED rg_attrs
             ELSE /\ rg_attrs' = [rg_attrs EXCEPT ![name] = f]
                  /\ UNCHANGED rg_base
        /\ rg_fresh' = FALSE
        /\ UNCHANGED <<rg_defined, rg_derived, rg_calls, rg_log, rg_ctxs>>
        /\ UNCHANGED rgOthers

RgNext ==
    \/ Defun
    \/ DefunWrapped
    \/ DefunStatic
    \/ ConstructContext

InitRegistry ==
    RgInit /\ SqIdle /\ LwIdle /\ GsIdle /\ FnIdle /\ FibIdle /\ EuIdle
    /\ StIdle /\ MgIdle /\ BeIdle /\ RtIdle /\ F2Idle /\ CyIdle /\ LpIdle

SpecRegistry == InitRegistry /\ [][RgNext]_vars

\* the last registration under name in the log
LastRegistration(name) ==
    LET is == {i \in 1..Len(rg_log) : rg_log[i][1] = name}
        i == CHOOSE j \in is : \A h \in is : h <= j
    IN  <<rg_log[i][2], rg_log[i][3]>>

\* C13: once a context is constructed after a sequence of registrations,
\* every name registered by defun (raw) or defun_wrapped (wrapped) is an
\* attribute of the context, bound by _wrap_specfun from the implementation
\* and the wrap flag of the most recent registration under that name; a
\* duplicate name replaces the earlier entry without an error.
RegistryLastWriteWins ==
    rg_fresh =>
        \A i \in 1..Len(rg_log) :
            LET name == rg_log[i][1]
                last == LastRegistration(name)
            IN  /\ rg_calls[name] = last
                /\ rg_attrs[name] = WrapSpecfun(last[1], last[2])
                /\ rg_attrs[name] \in Implementations

RegistryDuplicateBound ==
    /\ rg_fresh
    /\ rg_log = <<<<"root", "f1", FALSE>>, <<"zeta", "f1", TRUE>>,
                  <<"root", "f2", TRUE>>>>
    /\ rg_attrs["root"] = "f2" /\ rg_calls["root"] = <<"f2", TRUE>>

\* C21 as stated: constructing a new context leaves the function bound
\* under every name on every previously constructed context unchanged, also
\* when a name was registered or re-registered between the two
\* constructions.
ContextBindingsStable ==
    [][Len(rg_ctxs') > Len(rg_ctxs) =>
         \A i \in 1..Len(rg_ctxs), name \in FunctionNames :
             BoundOn(rg_ctxs'[i], rg_attrs', rg_base', name) =
                 BoundOn(rg_ctxs[i], rg_attrs, rg_base, name)]_vars

\* the same when nothing was registered since the last construction
ContextBindingsStableWhenFresh ==
    [][(Len(rg_ctxs') > Len(rg_ctxs) /\ rg_fresh) =>
         \A i \in 1..Len(rg_ctxs), name \in FunctionNames :
             BoundOn(rg_ctxs'[i], rg_attrs', rg_base', name) =
                 BoundOn(rg_ctxs[i], rg_attrs, rg_base, name)]_vars

(***************************************************************************)
(* Backend selection (libmp/backend.py, lines 20-70).                      *)
(***************************************************************************)
\* at most MaxMPZCalls calls of MPZ after the module body
MaxMPZCalls == 1

EnvNames == {"MPMATH_NOGMPY", "HOME"}
NativeLibraries == {"gmpy2", "gmp"}
Buckets == {"<=10", "<=24", "<=53", "<=113", "<=237", "<=1000", "<=3000",
            "other"}
\* bit lengths on both sides of every bucket limit
BitCounts == {0, 10, 11, 24, 25, 53, 54, 113, 114, 237, 238, 1000, 1001,
              3000, 3001}

\* the opt-out never seen
OptOutIgnored(env) == FALSE
\* line 27: 'MPMATH_NOGMPY' in os.environ
OptOut(env) == "MPMATH_NOGMPY" \in env

\* lines 45-61: the bucket of an argument of bc bits
Bucket(bc) ==
    IF bc <= 10 THEN "<=10"
    ELSE IF bc <= 24 THEN "<=24"
    ELSE IF bc <= 53 THEN "<=53"
    ELSE IF bc <= 113 THEN "<=113"
    ELSE IF bc <= 237 THEN "<=237"
    ELSE IF bc <= 1000 THEN "<=1000"
    ELSE IF bc <= 3000 THEN "<=3000"
    ELSE "other"

\* MPZ(x) for an x of bc bits, one argument: the wrapper counts it
StatsAfterMPZ(stats, mpz, bc) ==
    IF mpz = "wrapper"
      THEN [stats EXCEPT ![Bucket(bc)] = stats[Bucket(bc)] + 1]
      ELSE stats

BeInit ==
    /\ be_pc = "start"
    /\ be_env \in SUBSET EnvNames
    /\ be_avail \in SUBSET NativeLibraries
    /\ be_gmpy = "None" /\ be_backend = "none" /\ be_mpz = "none"
    /\ be_mpq = "none" /\ be_stats = <<>> /\ be_consts = 0 /\ be_calls = 0

\* lines 20-25
BackendDefaults ==
    /\ be_pc = "start"
    /\ be_gmpy' = "None" /\ be_backend' = "python" /\ be_mpz' = "int"
    /\ be_mpq' = "fractions.Fraction"
    /\ be_stats' = [b \in Buckets |-> 0]
    /\ be_pc' = "env"
    /\ UNCHANGED <<be_env, be_avail, be_consts, be_calls>>
    /\ UNCHANGED beOthers

\* line 27
BackendEnvTest ==
    /\ be_pc = "env"
    /\ be_pc' = IF OptOut(be_env) THEN "consts" ELSE "gmpy2"
    /\ UNCHANGED <<be_env, be_avail, be_gmpy, be_backend, be_mpz, be_mpq,
                   be_stats, be_consts, be_calls>>
    /\ UNCHANGED beOthers

\* line 29: import gmpy2 as gmpy; line 32: except ImportError
BackendImportGmpy2 ==
    /\ be_pc = "gmpy2"
    /\ IF "gmpy2" \in be_avail
         THEN be_gmpy' = "gmpy2" /\ be_pc' = "gmpy2_backend"
         ELSE be_gmpy' = be_gmpy /\ be_pc' = "gmp"
    /\ UNCHANGED <<be_env, be_avail, be_backend, be_mpz, be_mpq, be_stats,
                   be_consts, be_calls>>
    /\ UNCHANGED beOthers

\* line 30: BACKEND = 'gmpy'
BackendSetGmpy ==
    /\ be_pc = "gmpy2_backend"
    /\ be_backend' = "gmpy"
    /\ be_pc' = "gmpy2_mpq"
    /\ UNCHANGED <<be_env, be_avail, be_gmpy, be_mpz, be_mpq, be_stats,
                   be_consts, be_calls>>
    /\ UNCHANGED beOthers

\* line 31: MPQ = gmpy.mpq
BackendSetMPQ ==
    /\ be_pc = "gmpy2_mpq"
    /\ be_mpq' = "gmpy.mpq"
    /\ be_pc' = "wrap"
    /\ UNCHANGED <<be_env, be_avail, be_gmpy, be_backend, be_mpz, be_stats,
                   be_consts, be_calls>>
    /\ UNCHANGED beOthers

\* line 34: import gmp as gmpy; lines 36-37: except ImportError: pass
BackendImportGmp ==
    /\ be_pc = "gmp"
    /\ IF "gmp" \in be_avail
         THEN be_gmpy' = "gmp" /\ be_pc' = "gmp_backend"
         ELSE be_gmpy' = be_gmpy /\ be_pc' = "wrap"
    /\ UNCHANGED <<be_env, be_avail, be_backend, be_mpz, be_mpq, be_stats,
                   be_consts, be_calls>>
    /\ UNCHANGED beOthers

\* line 35: BACKEND = 'gmp'
BackendSetGmp ==
    /\ be_pc = "gmp_backend"
    /\ be_backend' = "gmp"
    /\ be_pc' = "wrap"
    /\ UNCHANGED <<be_env, be_avail, be_gmpy, be_mpz, be_mpq, be_stats,
                   be_consts, be_calls>>
    /\ UNCHANGED beOthers

\* lines 39-40: if gmpy: def MPZ(*args)
BackendWrapMPZ ==
    /\ be_pc = "wrap"
    /\ be_mpz' = IF be_gmpy # "None" THEN "wrapper" ELSE be_mpz
    /\ be_pc' = "consts"
    /\ UNCHANGED <<be_env, be_avail, be_gmpy, be_backend, be_mpq, be_stats,
                   be_consts, be_calls>>
    /\ UNCHANGED beOthers

\* lines 64-68: MPZ_ZERO = MPZ(0), ..., MPZ_FIVE = MPZ(5), each of at most
\* 3 bits
BackendConstant ==
    /\ be_pc = "consts"
    /\ be_stats' = StatsAfterMPZ(be_stats, be_mpz, 3)
    /\ be_consts' = be_consts + 1
    /\ be_pc' = IF be_consts + 1 = 5 THEN "types" ELSE "consts"
    /\ UNCHANGED <<be_env, be_avail, be_gmpy, be_backend, be_mpz, be_mpq,
                   be_calls>>
    /\ UNCHANGED beOthers

\* line 70: int_types = (int,) if BACKEND == 'python' else (int, type(MPZ(1)))
BackendIntTypes ==
    /\ be_pc = "types"
    /\ be_stats' = IF be_backend = "python" THEN be_stats
                   ELSE StatsAfterMPZ(be_stats, be_mpz, 1)
    /\ be_pc' = "ready"
    /\ UNCHANGED <<be_env, be_avail, be_gmpy, be_backend, be_mpz, be_mpq,
                   be_consts, be_calls>>
    /\ UNCHANGED beOthers

\* a later call MPZ(x), x of bc bits
CallMPZ ==
    \E bc \in BitCounts :
        /\ be_pc = "ready" /\ be_calls < MaxMPZCalls
        /\ be_stats' = StatsAfterMPZ(be_stats, be_mpz, bc)
        /\ be_calls' = be_calls + 1
        /\ UNCHANGED <<be_pc, be_env, be_avail, be_gmpy, be_backend, be_mpz,
                       be_mpq, be_consts>>
        /\ UNCHANGED beOthers

BeNext ==
    \/ BackendDefaults
    \/ BackendEnvTest
    \/ BackendImportGmpy2
    \/ BackendSetGmpy
    \/ BackendSetMPQ
    \/ BackendImportGmp
    \/ BackendSetGmp
    \/ BackendWrapMPZ
    \/ BackendConstant
    \/ BackendIntTypes
    \/ CallMPZ

InitBackend ==
    BeInit /\ SqIdle /\ LwIdle /\ GsIdle /\ FnIdle /\ FibIdle /\ EuIdle
    /\ StIdle /\ MgIdle /\ RgIdle /\ RtIdle /\ F2Idle /\ CyIdle /\ LpIdle

SpecBackend == InitBackend /\ [][BeNext]_vars

\* C14: after the module body has run, the backend is 'python' with int as
\* MPZ whenever MPMATH_NOGMPY is in the environment or neither native
\* library can be imported; otherwise it is 'gmpy' if gmpy2 imports and 'gmp'
\* if only gmp does; in every outcome BACKEND is 'python' exactly when the
\* name gmpy is None.
BackendSelection ==
    be_pc = "ready" =>
        /\ ("MPMATH_NOGMPY" \in be_env \/ be_avail = {}) =>
             (be_backend = "python" /\ be_mpz = "int" /\ be_gmpy = "None")
        /\ ("MPMATH_NOGMPY" \notin be_env /\ "gmpy2" \in be_avail) =>
             (be_backend = "gmpy" /\ be_gmpy = "gmpy2")
        /\ ("MPMATH_NOGMPY" \notin be_env /\ be_avail = {"gmp"}) =>
             (be_backend = "gmp" /\ be_gmpy = "gmp")
        /\ be_backend = "python" <=> be_gmpy = "None"

BackendOptedOut ==
    /\ be_pc = "ready" /\ be_env = {"MPMATH_NOGMPY"}
    /\ be_avail = {"gmpy2", "gmp"} /\ be_backend = "python"

(***************************************************************************)
(* The correction loops of sqrtrem_python (lines 240-251), entered from an *)
(* arbitrary estimate in the place of isqrt_fast_python(x).                *)
(***************************************************************************)
\* x ranges over 0..MaxCorrX, the estimate over 0..MaxEstimate
MaxCorrX == 40
MaxEstimate == 8

SqEstimateInit ==
    /\ sq_pc = "estimate" /\ sq_x \in 0..MaxCorrX
    /\ sq_est \in 0..MaxEstimate
    /\ sq_r = 0 /\ sq_y = 0 /\ sq_rem = 0 /\ sq_path = "none"

\* lines 240-241: y = isqrt_fast_python(x) + 1; rem = x - y*y
SqrtremFromEstimate ==
    /\ sq_pc = "estimate"
    /\ sq_y' = sq_est + 1
    /\ sq_rem' = sq_x - (sq_est + 1) * (sq_est + 1)
    /\ sq_path' = "estimate" /\ sq_pc' = "down"
    /\ UNCHANGED <<sq_x, sq_r, sq_est>>
    /\ UNCHANGED sqOthers

SqEstimateNext ==
    \/ SqrtremFromEstimate
    \/ SqrtremDown
    \/ SqrtremUp

InitSqrtremEstimate ==
    SqEstimateInit /\ LwIdle /\ GsIdle /\ FnIdle /\ FibIdle /\ EuIdle
    /\ StIdle /\ MgIdle /\ RgIdle /\ BeIdle /\ RtIdle /\ F2Idle /\ CyIdle
    /\ LpIdle

SpecSqrtremEstimate == InitSqrtremEstimate /\ [][SqEstimateNext]_vars

\* C15: from any estimate e >= 0 in the place of isqrt_fast(x), too large or
\* too small by any amount, the downward loop followed by the upward loop
\* ends with y = floor(sqrt(x)) and rem = x - y*y.
SqrtremCorrectsAnyEstimate ==
    (sq_pc = "done" /\ sq_path = "estimate") =>
        (sq_y = FloorSqrt(sq_x) /\ sq_rem = sq_x - sq_y * sq_y)

\* what the loops do achieve: exactness from every estimate that is not more
\* than one unit below the root
SqrtremCorrectsHighEstimate ==
    (sq_pc = "done" /\ sq_path = "estimate"
       /\ sq_est >= FloorSqrt(sq_x) - 1) =>
        (sq_y = FloorSqrt(sq_x) /\ sq_rem = sq_x - sq_y * sq_y)

(***************************************************************************)
(* root and unitroots (functions.py, lines 281-312).                       *)
(***************************************************************************)
\* n ranges over 1..MaxRootN
MaxRootN == 3
\* a subcomputation that raises may leave ctx.prec up to this much higher
MaxLeftOver == 15

\* lines 292 and 304: ctx.prec += 10
RootExtraPrec == 10

\* the precision lowered by the amount it was raised by
PrecLoweredAgain(saved, current) == current - RootExtraPrec
\* lines 295 and 311: finally: ctx.prec = prec
PrecRestored(saved, current) == saved

\* the parts of the subcomputation: root(x, n, 0) and _rootof1(k, n) for
\* root; one _rootof1(k, n) per k in range(n) for unitroots
SubParts(fn, n) == IF fn = "root" THEN 2 ELSE n

RtInit ==
    /\ rt_pc = "call"
    /\ \/ rt_fn = "root" /\ rt_case \in {"k0", "realroot", "unity"}
       \/ rt_fn = "unitroots" /\ rt_case \in {"primitive", "all"}
    /\ rt_n \in 1..MaxRootN
    /\ rt_ctxprec \in EntryPrecs /\ rt_entry = rt_ctxprec
    /\ rt_prec = 0 /\ rt_i = 0 /\ rt_err = FALSE

\* root, lines 285-288 and 297: k = 0 returns ctx._nthroot(x, n); the exact
\* real root returns -ctx.root(-x, n)
RootDirect ==
    /\ rt_pc = "call" /\ rt_fn = "root" /\ rt_case \in {"k0", "realroot"}
    /\ rt_pc' \in {"returned", "raised"}
    /\ rt_err' = (rt_pc' = "raised")
    /\ UNCHANGED <<rt_fn, rt_case, rt_n, rt_ctxprec, rt_entry, rt_prec, rt_i>>
    /\ UNCHANGED rtOthers

\* lines 290-291 and 302-303: prec = ctx.prec; try:
RootSavePrec ==
    /\ rt_pc = "call"
    /\ rt_fn = "unitroots" \/ rt_case = "unity"
    /\ rt_prec' = rt_ctxprec
    /\ rt_pc' = "try"
    /\ UNCHANGED <<rt_fn, rt_case, rt_n, rt_ctxprec, rt_entry, rt_i, rt_err>>
    /\ UNCHANGED rtOthers

\* lines 292 and 304
RootRaisePrec ==
    /\ rt_pc = "try"
    /\ rt_ctxprec' = rt_ctxprec + RootExtraPrec
    /\ rt_pc' = "sub"
    /\ UNCHANGED <<rt_fn, rt_case, rt_n, rt_entry, rt_prec, rt_i, rt_err>>
    /\ UNCHANGED rtOthers

\* lines 293 and 305-309: one part of the subcomputation returns
RootSubStep ==
    /\ rt_pc = "sub" /\ rt_i < SubParts(rt_fn, rt_n)
    /\ rt_i' = rt_i + 1
    /\ UNCHANGED <<rt_pc, rt_fn, rt_case, rt_n, rt_ctxprec, rt_entry, rt_prec,
                   rt_err>>
    /\ UNCHANGED rtOthers

\* one part of the subcomputation raises, with ctx.prec wherever it was
RootSubRaise ==
    /\ rt_pc = "sub" /\ rt_i < SubParts(rt_fn, rt_n)
    /\ rt_ctxprec' \in {rt_ctxprec, rt_ctxprec + MaxLeftOver}
    /\ rt_err' = TRUE
    /\ rt_pc' = "finally"
    /\ UNCHANGED <<rt_fn, rt_case, rt_n, rt_entry, rt_prec, rt_i>>
    /\ UNCHANGED rtOthers

\* the subcomputation is complete
RootSubDone ==
    /\ rt_pc = "sub" /\ rt_i = SubParts(rt_fn, rt_n)
    /\ rt_pc' = "finally"
    /\ UNCHANGED <<rt_fn, rt_case, rt_n, rt_ctxprec, rt_entry, rt_prec, rt_i,
                   rt_err>>
    /\ UNCHANGED rtOthers

\* lines 294-296 and 310-312: finally: ctx.prec = prec; then the return, or
\* the error goes on to the caller
RootFinally ==
    /\ rt_pc = "finally"
    /\ rt_ctxprec' = PrecRestored(rt_prec, rt_ctxprec)
    /\ rt_pc' = IF rt_err THEN "raised" ELSE "returned"
    /\ UNCHANGED <<rt_fn, rt_case, rt_n, rt_entry, rt_prec, rt_i, rt_err>>
    /\ UNCHANGED rtOthers

RtNext ==
    \/ RootDirect
    \/ RootSavePrec
    \/ RootRaisePrec
    \/ RootSubStep
    \/ RootSubRaise
    \/ RootSubDone
    \/ RootFinally

InitRoot ==
    RtInit /\ SqIdle /\ LwIdle /\ GsIdle /\ FnIdle /\ FibIdle /\ EuIdle
    /\ StIdle /\ MgIdle /\ RgIdle /\ BeIdle /\ F2Idle /\ CyIdle /\ LpIdle

SpecRoot == InitRoot /\ [][RtNext]_vars

\* C16: root (with k # 0, outside the exact-real-root shortcut) and unitroots
\* run their subcomputation with the context precision raised by 10 and
\* leave the context precision at its pre-call value, on a normal return and
\* when the subcomputation raises an error.
RootRestoresPrec ==
    /\ (rt_pc = "sub" /\ (rt_fn = "unitroots" \/ rt_case = "unity")) =>
         rt_ctxprec = rt_entry + 10
    /\ rt_pc \in {"returned", "raised"} => rt_ctxprec = rt_entry

RootRaisedRestored ==
    /\ rt_pc = "raised" /\ rt_fn = "root" /\ rt_case = "unity"
    /\ rt_prec = 53 /\ rt_ctxprec = 53 /\ rt_i = 1

(***************************************************************************)
(* ifac2 (libintmath.py, lines 303-319).                                   *)
(***************************************************************************)
\* ifac2 is called with n in 0..MaxFac2N
MaxFac2N == 10
\* MAX_FACTORIAL_CACHE, line 303, scaled down from 1000
MAX_FACTORIAL_CACHE == 6

\* max(memo)
MaxKey(memo) == CHOOSE k \in DOMAIN memo : \A j \in DOMAIN memo : j <= k

\* every key stored
CachesEveryKey(k) == TRUE
\* line 317: if k <= MAX
CachesKey(k) == k <= MAX_FACTORIAL_CACHE

\* line 305: memo_pair=[{0:1}, {1:1}], made once, when the function is defined
F2Init ==
    /\ f2_pc = "ready"
    /\ f2_memo = [b \in {0, 1} |-> (b :> 1)]
    /\ f2_n = 0 /\ f2_k = 0 /\ f2_p = 0 /\ f2_res = 0

\* lines 307-313: memo = memo_pair[n&1]; f = memo.get(n); if f: return f;
\* k = max(memo); p = memo[k]
Ifac2Call ==
    \E n \in 0..MaxFac2N :
        /\ f2_pc \in {"ready", "returned"}
        /\ f2_n' = n
        /\ LET memo == f2_memo[n % 2]
           IN  IF n \in DOMAIN memo /\ memo[n] # 0
                 THEN /\ f2_res' = memo[n] /\ f2_pc' = "returned"
                      /\ UNCHANGED <<f2_k, f2_p>>
                 ELSE /\ f2_k' = MaxKey(memo) /\ f2_p' = memo[MaxKey(memo)]
                      /\ f2_pc' = "loop"
                      /\ UNCHANGED f2_res
        /\ UNCHANGED f2_memo
        /\ UNCHANGED f2Others

\* lines 314-318: while k < n: k += 2; p *= k; if k <= MAX: memo[k] = p
Ifac2Loop ==
    /\ f2_pc = "loop" /\ f2_k < f2_n
    /\ f2_k' = f2_k + 2
    /\ f2_p' = f2_p * (f2_k + 2)
    /\ f2_memo' = IF CachesKey(f2_k + 2)
                    THEN [f2_memo EXCEPT ![f2_n % 2] =
                            ((f2_k + 2) :> f2_p') @@ f2_memo[f2_n % 2]]
                    ELSE f2_memo
    /\ UNCHANGED <<f2_pc, f2_n, f2_res>>
    /\ UNCHANGED f2Others

\* line 319: return p
Ifac2Return ==
    /\ f2_pc = "loop" /\ ~(f2_k < f2_n)
    /\ f2_res' = f2_p
    /\ f2_pc' = "returned"
    /\ UNCHANGED <<f2_memo, f2_n, f2_k, f2_p>>
    /\ UNCHANGED f2Others

F2Next ==
    \/ Ifac2Call
    \/ Ifac2Loop
    \/ Ifac2Return

InitIfac2 ==
    F2Init /\ SqIdle /\ LwIdle /\ GsIdle /\ FnIdle /\ FibIdle /\ EuIdle
    /\ StIdle /\ MgIdle /\ RgIdle /\ BeIdle /\ RtIdle /\ CyIdle /\ LpIdle

SpecIfac2 == InitIfac2 /\ [][F2Next]_vars

\* n!! = n (n-2) (n-4) ..., with 0!! = 1!! = 1
RECURSIVE DoubleFactorial(_)
DoubleFactorial(n) == IF n <= 1 THEN 1 ELSE n * DoubleFactorial(n - 2)

\* C17: in every state reached by any sequence of ifac2 calls with n >= 0,
\* each parity's memo table holds the gap-free run of the keys of its parity
\* from its base (0 or 1) up to its maximum, no key exceeds
\* MAX_FACTORIAL_CACHE, every stored value is k!!, and every call returns
\* n!!, whatever calls came before.
Ifac2MemoGapFree ==
    /\ \A b \in {0, 1} :
         LET memo == f2_memo[b]
         IN  /\ DOMAIN memo =
                  {k \in b..MaxKey(memo) : k % 2 = b}
             /\ \A k \in DOMAIN memo :
                  k <= MAX_FACTORIAL_CACHE /\ memo[k] = DoubleFactorial(k)
    /\ f2_pc = "returned" => f2_res = DoubleFactorial(f2_n)

Ifac2AboveCacheAfterFill ==
    /\ f2_pc = "returned" /\ f2_n = 9 /\ f2_res = 945
    /\ DOMAIN f2_memo[1] = {1, 3, 5} /\ DOMAIN f2_memo[0] = {0, 2, 4, 6}

(***************************************************************************)
(* cyclotomic (functions.py, lines 579-620).                               *)
(***************************************************************************)
\* n ranges over -1..MaxCycN
MaxCycN == 30

\* every factor with a nonzero exponent counted as a zero
CountsAsZeroOrPole(w) == w # 0
\* line 607: if w == 1 (a zero of the product); elif w == -1 is a pole
CountsAsZero(w) == w = 1

\* line 604: b = -ctx.powm1(z, d) is exactly 0: z^d = 1, which for a
\* primitive m-th root of unity z means that m divides d
FactorIsZero(m, d) == m >= 1 /\ d % m = 0

\* the value returned: zero, or the product of the factors times num / den
CyValue(zero, factors, num, den) == <<"value", zero, factors, num, den>>

CyInit ==
    /\ cy_pc = "call" /\ cy_n \in (-1)..MaxCycN
    /\ cy_m \in {0} \cup {m \in 1..MaxCycN : cy_n >= 1 /\ cy_n % m = 0}
    /\ cy_d = 0 /\ cy_p = <<>> /\ cy_a = 0 /\ cy_b = 0
    /\ cy_zeros = 0 /\ cy_poles = 0 /\ cy_res = NoValue

\* lines 582-583: raise ValueError
CyclotomicNegative ==
    /\ cy_pc = "call" /\ cy_n < 0
    /\ cy_pc' = "raised"
    /\ UNCHANGED <<cy_n, cy_m, cy_d, cy_p, cy_a, cy_b, cy_zeros, cy_poles,
                   cy_res>>
    /\ UNCHANGED cyOthers

\* lines 584-590: n = 0, 1, 2 return 1, z - 1, z + 1
CyclotomicSmall ==
    /\ cy_pc = "call" /\ cy_n \in {0, 1, 2}
    /\ cy_res' = <<"small", cy_n>>
    /\ cy_pc' = "returned"
    /\ UNCHANGED <<cy_n, cy_m, cy_d, cy_p, cy_a, cy_b, cy_zeros, cy_poles>>
    /\ UNCHANGED cyOthers

\* lines 594-598: a_prod = 1; b_prod = 1; num_zeros = 0; num_poles = 0;
\* for d in range(1, n+1)
CyclotomicBegin ==
    /\ cy_pc = "call" /\ cy_n >= 3
    /\ cy_a' = 1 /\ cy_b' = 1 /\ cy_zeros' = 0 /\ cy_poles' = 0
    /\ cy_d' = 1 /\ cy_pc' = "loop"
    /\ UNCHANGED <<cy_n, cy_m, cy_p, cy_res>>
    /\ UNCHANGED cyOthers

\* lines 598-612: one pass of the loop
CyclotomicPass ==
    /\ cy_pc = "loop"
    /\ IF cy_n % cy_d # 0
         THEN UNCHANGED <<cy_p, cy_a, cy_b, cy_zeros, cy_poles>>
         ELSE LET w == MoebiusRun(cy_n \div cy_d)[1]
              IN  IF ~FactorIsZero(cy_m, cy_d)
                    THEN /\ cy_p' = Append(cy_p, <<cy_d, w>>)
                         /\ UNCHANGED <<cy_a, cy_b, cy_zeros, cy_poles>>
                  ELSE IF CountsAsZero(w)
                    THEN /\ cy_a' = cy_a * cy_d
                         /\ cy_zeros' = cy_zeros + 1
                         /\ UNCHANGED <<cy_p, cy_b, cy_poles>>
                  ELSE IF w = -1
                    THEN /\ cy_b' = cy_b * cy_d
                         /\ cy_poles' = cy_poles + 1
                         /\ UNCHANGED <<cy_p, cy_a, cy_zeros>>
                  ELSE UNCHANGED <<cy_p, cy_a, cy_b, cy_zeros, cy_poles>>
    /\ IF cy_d < cy_n
         THEN cy_d' = cy_d + 1 /\ cy_pc' = "loop"
         ELSE cy_d' = cy_d /\ cy_pc' = "finish"
    /\ UNCHANGED <<cy_n, cy_m, cy_res>>
    /\ UNCHANGED cyOthers

\* lines 614-620: if num_zeros: if num_zeros > num_poles: p *= 0
\* else: p *= a_prod; p /= b_prod; return p
CyclotomicFinish ==
    /\ cy_pc = "finish"
    /\ cy_res' = IF cy_zeros # 0
                   THEN IF cy_zeros > cy_poles
                          THEN CyValue(TRUE, cy_p, 0, 1)
                          ELSE CyValue(FALSE, cy_p, cy_a, cy_b)
                   ELSE CyValue(FALSE, cy_p, 1, 1)
    /\ cy_pc' = "returned"
    /\ UNCHANGED <<cy_n, cy_m, cy_d, cy_p, cy_a, cy_b, cy_zeros, cy_poles>>
    /\ UNCHANGED cyOthers

CyNext ==
    \/ CyclotomicNegative
    \/ CyclotomicSmall
    \/ CyclotomicBegin
    \/ CyclotomicPass
    \/ CyclotomicFinish

InitCyclotomic ==
    CyInit /\ SqIdle /\ LwIdle /\ GsIdle /\ FnIdle /\ FibIdle /\ EuIdle
    /\ StIdle /\ MgIdle /\ RgIdle /\ BeIdle /\ RtIdle /\ F2Idle /\ LpIdle

SpecCyclotomic == InitCyclotomic /\ [][CyNext]_vars

\* p when n is a power of the prime p, and 1 otherwise
PrimeOfPower(n) == IF IsPrimePower(n) THEN LeastDivisorFrom(n, 2) ELSE 1

\* C18: in cyclotomic(n, z), n >= 3, with z a primitive m-th root of unity,
\* m dividing n, the counts end with num_zeros - num_poles = 1 when m = n and
\* 0 when m < n; the result is 0 exactly when m = n, and otherwise the zero
\* factors contribute a_prod / b_prod, which is p when n/m is a power of the
\* prime p and 1 otherwise (for z = 1 nothing else is left: the result is p
\* when n is a power of p, and 1 otherwise).
CyclotomicCancelsZeros ==
    (cy_pc = "returned" /\ cy_n >= 3 /\ cy_m >= 1) =>
        /\ cy_zeros - cy_poles = IF cy_m = cy_n THEN 1 ELSE 0
        /\ cy_zeros >= 1
        /\ cy_res[2] <=> cy_m = cy_n
        /\ cy_m < cy_n =>
             /\ cy_res = CyValue(FALSE, cy_p, cy_a, cy_b)
             /\ cy_a = cy_b * PrimeOfPower(cy_n \div cy_m)
        /\ cy_m = 1 => (cy_p = <<>> /\ cy_a = cy_b * PrimeOfPower(cy_n))

CyclotomicAtOne ==
    /\ cy_pc = "returned" /\ cy_n = 27 /\ cy_m = 1
    /\ cy_a = 27 /\ cy_b = 9 /\ cy_zeros = 1 /\ cy_poles = 1

(***************************************************************************)
(* log1p (functions.py, lines 165-242), and the working precision of       *)
(* lambertw and log1p together.                                            *)
(***************************************************************************)
\* cmag ranges over -MaxLog1pMag..MaxLog1pMag
MaxLog1pMag == 120

\* half the working precision for the addition
Log1pAddPrecHalved(wp, cmag, agtb) == wp \div 2
\* lines 177-211: the prec of ctx.fadd(1.0, c, prec=wp)
Log1pAddPrec(wp, cmag, agtb) ==
    IF cmag < 4
      THEN IF agtb THEN wp * 2 ELSE wp * 3
      ELSE wp

LpInit ==
    /\ lp_pc = "call" /\ lp_zero \in BOOLEAN
    /\ lp_prec \in EntryPrecs
    /\ lp_cmag \in (-MaxLog1pMag)..MaxLog1pMag
    /\ lp_agtb \in BOOLEAN
    /\ lp_wp = 0 /\ lp_addprec = 0

\* lines 167-168: if not x: return ctx.zero
Log1pZero ==
    /\ lp_pc = "call" /\ lp_zero
    /\ lp_pc' = "returned"
    /\ UNCHANGED <<lp_zero, lp_prec, lp_cmag, lp_agtb, lp_wp, lp_addprec>>
    /\ UNCHANGED lpOthers

\* lines 176-211: wp = ctx.prec; if cmag >= -wp: ...; arg = ctx.fadd(1.0, c,
\* prec=wp)
Log1pAdd ==
    /\ lp_pc = "call" /\ ~lp_zero /\ lp_cmag >= -lp_prec
    /\ lp_wp' = Log1pAddPrec(lp_prec, lp_cmag, lp_agtb)
    /\ lp_addprec' = lp_wp'
    /\ lp_pc' = "added"
    /\ UNCHANGED <<lp_zero, lp_prec, lp_cmag, lp_agtb>>
    /\ UNCHANGED lpOthers

\* lines 212-241: c is very small, the series c - c**2/2, without ctx.fadd
Log1pSeries ==
    /\ lp_pc = "call" /\ ~lp_zero /\ lp_cmag < -lp_prec
    /\ lp_wp' = lp_prec
    /\ lp_pc' = "series"
    /\ UNCHANGED <<lp_zero, lp_prec, lp_cmag, lp_agtb, lp_addprec>>
    /\ UNCHANGED lpOthers

\* line 211: result = ctx.log(arg); line 243: return result
Log1pReturn ==
    /\ lp_pc \in {"added", "series"}
    /\ lp_pc' = "returned"
    /\ UNCHANGED <<lp_zero, lp_prec, lp_cmag, lp_agtb, lp_wp, lp_addprec>>
    /\ UNCHANGED lpOthers

LpNext ==
    \/ Log1pZero
    \/ Log1pAdd
    \/ Log1pSeries
    \/ Log1pReturn

\* a call of lambertw, or a call of log1p
PrecisionNext ==
    \/ LwNext
    \/ LpNext

InitPrecision ==
    /\ \/ LwInit /\ LpIdle
       \/ LpInit /\ LwIdle
    /\ SqIdle /\ GsIdle /\ FnIdle /\ FibIdle /\ EuIdle /\ StIdle /\ MgIdle
    /\ RgIdle /\ BeIdle /\ RtIdle /\ F2Idle /\ CyIdle

SpecPrecision == InitPrecision /\ [][PrecisionNext]_vars

\* C19: at every point of a lambertw call the context precision is at least
\* the precision on entry, and above it from the initial raise by
\* 20 + mag(k or 1) until the return, the branch-point series included, which
\* adds the cancellation, takes it off again and may add half of it; and the
\* precision log1p gives to its addition is prec, 2*prec or 3*prec, never
\* less than prec.
PrecisionNeverBelowEntry ==
    /\ lw_pc # "idle" => lw_ctxprec >= lw_entry
    /\ lw_pc \in {"series", "sqrt", "terms", "halley", "after"} =>
         lw_ctxprec >= lw_entry + 21
    /\ lw_pc = "sqrt" => lw_ctxprec >= lw_entry + 21 + lw_canc
    /\ lp_pc \in {"added", "returned"} /\ lp_addprec # 0 =>
         /\ lp_addprec \in {lp_prec, 2 * lp_prec, 3 * lp_prec}
         /\ lp_addprec >= lp_prec
         /\ lp_addprec = lp_prec <=> lp_cmag >= 4

SeriesPrecisionLoweredAgain ==
    /\ lw_pc = "terms" /\ lw_canc = 5 /\ lw_k = -1
    /\ lw_ctxprec = lw_entry + 21

====
